---- MODULE Spec2Model ----
(***************************************************************************)
(* Model of the partition engine of pr-splitter-cli                        *)
(* (internal/partition: partitioner.go, tarjan.go, grouper.go, namer.go).  *)
(*                                                                         *)
(* One call of Partitioner.CreatePlan is a run of the state machine: the   *)
(* inputs (changes, dependencies, cfg) are fixed by Init, pc is the        *)
(* position inside CreatePlan, and every loop iteration that emits a       *)
(* partition or asks the user is one action.  Go map iteration is a        *)
(* nondeterministic choice of order.  Strings are sequences of one-letter  *)
(* strings so that Split, Ext, ToLower, Contains are computed, not assumed.*)
(***************************************************************************)
EXTENDS Integers, Sequences, FiniteSets, TLC

VARIABLES
  changes,        \* CreatePlan argument: []types.FileChange
  dependencies,   \* CreatePlan argument: []types.Dependency
  cfg,            \* CreatePlan argument: *types.Config
  pc,             \* position inside CreatePlan
  changedFiles,   \* CreatePlan local
  graph,          \* CreatePlan local: *types.DependencyGraph
  sccs,           \* CreatePlan local: circular groups, largest first
  approvedSCCs,   \* handleOversizedCircularGroups local
  partitions,     \* createAllPartitions local: the plan being built
  allocated,      \* createAllPartitions local: map[string]bool
  depthCache,     \* Partitioner.depthCache
  workingNodes,   \* createDependencyPartitions local
  depthGroups,    \* createDependencyPartitions local
  depth,          \* createDependencyPartitions loop variable
  depAllocated,   \* createDependencyPartitions local allocated
  depPartitions,  \* createDependencyPartitions local partitions
  groups,         \* createRemainingFilePartitions: groups not yet ranged over
  remPartitions,  \* createRemainingFilePartitions local partitions
  warned,         \* the capacity warning was printed
  prompts,        \* the oversize prompts shown and the answer given to each
  result,         \* what CreatePlan returned: [plan, err]
  prevResult,     \* what the previous CreatePlan call on this input returned
  runs,           \* number of CreatePlan calls started on this input
  prevGraph,      \* the graph the previous CreatePlan call built
  wf,             \* position inside Splitter.executeWorkflow
  preValidation,  \* validateAndExecute local: what ValidatePlan returned
  postValidation, \* validateAndExecute local: what ValidateBranches returned
  wfErr,          \* the error executeWorkflow returned, "" for none
  local,          \* the branches of the local repository
  remote,         \* the branches of the remote origin
  checkedOut,     \* the branch that is checked out
  createdBranches,\* CreateBranches local
  pushedBranches, \* CreateBranches local
  branches,       \* what CreateBranches returned: [list, err]
  log,            \* the git commands run so far that change the repository
  manager,        \* Manager.AnalyzeDependencies: its argument and its locals
  rollback        \* runRollback: its argument and its locals

\* the state of the workflow around CreatePlan
wfVars == <<wf, preValidation, postValidation, wfErr, local, remote, checkedOut,
            createdBranches, pushedBranches, branches, log, manager, rollback>>

vars == <<changes, dependencies, cfg, pc, changedFiles, graph, sccs,
          approvedSCCs, partitions, allocated, depthCache, workingNodes,
          depthGroups, depth, depAllocated, depPartitions, groups,
          remPartitions, warned, result, prompts, prevResult, runs, prevGraph, wfVars>>

(***************************************************************************)
(* Bounds of the model.                                                    *)
(***************************************************************************)
MaxFiles == 3          \* length of the changes list
MaxEdges == 3          \* length of the dependencies list
MaxSize == 2           \* largest cfg.MaxFilesPerPartition
MaxParts == 1          \* largest cfg.MaxPartitions
MaxExtra == 2          \* edges added to the cycle of the four-file inputs
MaxRuns == 2           \* CreatePlan calls on one input

(***************************************************************************)
(* Generic sequence helpers.                                               *)
(***************************************************************************)
Range(s) == {s[i] : i \in DOMAIN s}

Min(a, b) == IF a < b THEN a ELSE b

\* All orders in which a Go map with key set S can be ranged over.
Perms(S) ==
  {p \in [1..Cardinality(S) -> S] : \A i, j \in DOMAIN p : p[i] = p[j] => i = j}

RECURSIVE FoldSeq(_, _, _)
\* op applied left to right over s: op(...op(op(base, s[1]), s[2])..., s[n])
FoldSeq(op(_, _), base, s) ==
  IF s = <<>> THEN base ELSE FoldSeq(op, op(base, Head(s)), Tail(s))

IndexOf(s, x) == CHOOSE i \in DOMAIN s : s[i] = x /\ \A j \in 1..(i - 1) : s[j] # x

(***************************************************************************)
(* Strings: a string is a sequence of one-character strings.               *)
(***************************************************************************)
Upper == <<"A","B","C","D","E","F","G","H","I","J","K","L","M",
           "N","O","P","Q","R","S","T","U","V","W","X","Y","Z">>
Lower == <<"a","b","c","d","e","f","g","h","i","j","k","l","m",
           "n","o","p","q","r","s","t","u","v","w","x","y","z">>

\* strings.ToLower
ToLower(s) ==
  [i \in DOMAIN s |->
     IF s[i] \in Range(Upper) THEN Lower[IndexOf(Upper, s[i])] ELSE s[i]]

\* strings.Contains
Contains(s, sub) ==
  \E i \in 0..(Len(s) - Len(sub)) :
    \A j \in 1..Len(sub) : s[i + j] = sub[j]

\* strings.LastIndex(s, c) as a 1-based position, 0 when absent
LastIndexOf(s, c) ==
  IF \E i \in DOMAIN s : s[i] = c
  THEN CHOOSE i \in DOMAIN s : s[i] = c /\ \A j \in (i + 1)..Len(s) : s[j] # c
  ELSE 0

RECURSIVE Split(_, _)
\* strings.Split(s, sep) for a one-character separator
Split(s, sep) ==
  IF \E i \in DOMAIN s : s[i] = sep
  THEN LET i == CHOOSE k \in DOMAIN s : s[k] = sep /\ \A j \in 1..(k - 1) : s[j] # sep
       IN <<SubSeq(s, 1, i - 1)>> \o Split(SubSeq(s, i + 1, Len(s)), sep)
  ELSE <<s>>

\* filepath.Ext: the suffix from the last dot of the last path element
Ext(path) ==
  LET slash == LastIndexOf(path, "/")
      dot == LastIndexOf(path, ".")
  IN IF dot > slash THEN SubSeq(path, dot, Len(path)) ELSE <<>>

\* filepath.Dir on a slash-normalised relative path (no "." or ".." elements,
\* no doubled or trailing slash): everything before the last slash, "." if none
Dir(path) ==
  LET slash == LastIndexOf(path, "/")
  IN IF slash = 0 THEN <<".">>
     ELSE IF slash = 1 THEN <<"/">>
     ELSE SubSeq(path, 1, slash - 1)

Digits == <<"0","1","2","3","4","5","6","7","8","9">>

RECURSIVE Itoa(_)
\* fmt's %d of a non-negative int
Itoa(n) == IF n < 10 THEN <<Digits[n + 1]>> ELSE Itoa(n \div 10) \o <<Digits[(n % 10) + 1]>>

(***************************************************************************)
(* Grouper (grouper.go).                                                   *)
(***************************************************************************)
typeGroups ==
     (<<".","m","d">> :> <<"d","o","c","u","m","e","n","t","a","t","i","o","n">>)
  @@ (<<".","t","x","t">> :> <<"d","o","c","u","m","e","n","t","a","t","i","o","n">>)
  @@ (<<".","m","d","x">> :> <<"d","o","c","u","m","e","n","t","a","t","i","o","n">>)
  @@ (<<".","j","s","o","n">> :> <<"c","o","n","f","i","g","u","r","a","t","i","o","n">>)
  @@ (<<".","y","a","m","l">> :> <<"c","o","n","f","i","g","u","r","a","t","i","o","n">>)
  @@ (<<".","y","m","l">> :> <<"c","o","n","f","i","g","u","r","a","t","i","o","n">>)
  @@ (<<".","t","o","m","l">> :> <<"c","o","n","f","i","g","u","r","a","t","i","o","n">>)
  @@ (<<".","x","m","l">> :> <<"c","o","n","f","i","g","u","r","a","t","i","o","n">>)
  @@ (<<".","c","s","s">> :> <<"s","t","y","l","e","s">>)
  @@ (<<".","s","c","s","s">> :> <<"s","t","y","l","e","s">>)
  @@ (<<".","s","a","s","s">> :> <<"s","t","y","l","e","s">>)
  @@ (<<".","l","e","s","s">> :> <<"s","t","y","l","e","s">>)
  @@ (<<".","s","t","y","l">> :> <<"s","t","y","l","e","s">>)
  @@ (<<".","p","n","g">> :> <<"a","s","s","e","t","s">>)
  @@ (<<".","j","p","g">> :> <<"a","s","s","e","t","s">>)
  @@ (<<".","j","p","e","g">> :> <<"a","s","s","e","t","s">>)
  @@ (<<".","g","i","f">> :> <<"a","s","s","e","t","s">>)
  @@ (<<".","s","v","g">> :> <<"a","s","s","e","t","s">>)
  @@ (<<".","i","c","o">> :> <<"a","s","s","e","t","s">>)
  @@ (<<".","w","o","f","f">> :> <<"a","s","s","e","t","s">>)
  @@ (<<".","w","o","f","f","2">> :> <<"a","s","s","e","t","s">>)
  @@ (<<".","t","t","f">> :> <<"a","s","s","e","t","s">>)
  @@ (<<".","e","o","t">> :> <<"a","s","s","e","t","s">>)

directoryGroups ==
     (<<"p","u","b","l","i","c">> :> <<"s","t","a","t","i","c","-","a","s","s","e","t","s">>)
  @@ (<<"s","t","a","t","i","c">> :> <<"s","t","a","t","i","c","-","a","s","s","e","t","s">>)
  @@ (<<"a","s","s","e","t","s">> :> <<"s","t","a","t","i","c","-","a","s","s","e","t","s">>)
  @@ (<<"i","m","a","g","e","s">> :> <<"s","t","a","t","i","c","-","a","s","s","e","t","s">>)
  @@ (<<"d","o","c","s">> :> <<"d","o","c","u","m","e","n","t","a","t","i","o","n">>)
  @@ (<<"d","o","c">> :> <<"d","o","c","u","m","e","n","t","a","t","i","o","n">>)
  @@ (<<"d","o","c","u","m","e","n","t","a","t","i","o","n">> :> <<"d","o","c","u","m","e","n","t","a","t","i","o","n">>)
  @@ (<<"c","o","n","f","i","g">> :> <<"c","o","n","f","i","g","u","r","a","t","i","o","n">>)
  @@ (<<"c","o","n","f","i","g","s">> :> <<"c","o","n","f","i","g","u","r","a","t","i","o","n">>)
  @@ (<<"s","e","t","t","i","n","g","s">> :> <<"c","o","n","f","i","g","u","r","a","t","i","o","n">>)
  @@ (<<"t","e","s","t","s">> :> <<"t","e","s","t","s">>)
  @@ (<<"t","e","s","t">> :> <<"t","e","s","t","s">>)
  @@ (<<"_","_","t","e","s","t","s","_","_">> :> <<"t","e","s","t","s">>)
  @@ (<<"s","p","e","c">> :> <<"t","e","s","t","s">>)
  @@ (<<"s","p","e","c","s">> :> <<"t","e","s","t","s">>)
  @@ (<<"s","t","y","l","e","s">> :> <<"s","t","y","l","e","s">>)
  @@ (<<"c","s","s">> :> <<"s","t","y","l","e","s">>)
  @@ (<<"s","c","s","s">> :> <<"s","t","y","l","e","s">>)
  @@ (<<"c","o","m","p","o","n","e","n","t","s">> :> <<"c","o","m","p","o","n","e","n","t","s">>)
  @@ (<<"c","o","m","p","o","n","e","n","t">> :> <<"c","o","m","p","o","n","e","n","t","s">>)
  @@ (<<"p","a","g","e","s">> :> <<"p","a","g","e","s">>)
  @@ (<<"v","i","e","w","s">> :> <<"v","i","e","w","s">>)
  @@ (<<"r","o","u","t","e","s">> :> <<"r","o","u","t","e","s">>)
  @@ (<<"a","p","i">> :> <<"a","p","i">>)
  @@ (<<"s","e","r","v","i","c","e","s">> :> <<"s","e","r","v","i","c","e","s">>)
  @@ (<<"s","e","r","v","i","c","e">> :> <<"s","e","r","v","i","c","e","s">>)
  @@ (<<"u","t","i","l","s">> :> <<"u","t","i","l","i","t","i","e","s">>)
  @@ (<<"u","t","i","l">> :> <<"u","t","i","l","i","t","i","e","s">>)
  @@ (<<"h","e","l","p","e","r","s">> :> <<"u","t","i","l","i","t","i","e","s">>)
  @@ (<<"l","i","b">> :> <<"l","i","b","r","a","r","i","e","s">>)
  @@ (<<"l","i","b","s">> :> <<"l","i","b","r","a","r","i","e","s">>)
  @@ (<<"v","e","n","d","o","r">> :> <<"v","e","n","d","o","r">>)
  @@ (<<"n","o","d","e","_","m","o","d","u","l","e","s">> :> <<"v","e","n","d","o","r">>)

testPatterns ==
  <<<<".","t","e","s","t",".">>,
    <<".","s","p","e","c",".">>,
    <<"_","t","e","s","t",".">>,
    <<"_","s","p","e","c",".">>,
    <<"/","t","e","s","t","/">>,
    <<"/","t","e","s","t","s","/">>,
    <<"/","s","p","e","c","/">>,
    <<"/","s","p","e","c","s","/">>,
    <<"/","_","_","t","e","s","t","s","_","_","/">>>>

\* FileGrouper.groupByFileType
groupByFileType(path) ==
  LET ext == ToLower(Ext(path))
  IN IF ext \in DOMAIN typeGroups THEN typeGroups[ext] ELSE <<>>

\* FileGrouper.containsTestPattern
containsTestPattern(path) ==
  \E i \in DOMAIN testPatterns : Contains(ToLower(path), testPatterns[i])

\* FileGrouper.groupByDirectory
groupByDirectory(path) ==
  LET parts == Split(path, "/")
      topDir == ToLower(parts[1])
  IN IF Len(parts) <= 1 THEN <<>>
     ELSE IF topDir \in DOMAIN directoryGroups THEN directoryGroups[topDir]
     ELSE IF containsTestPattern(path) THEN <<"t","e","s","t","s">>
     ELSE <<"d","i","r","-">> \o topDir

\* FileGrouper.determineGroup
determineGroup(file) ==
  IF groupByFileType(file.Path) # <<>> THEN groupByFileType(file.Path)
  ELSE IF groupByDirectory(file.Path) # <<>> THEN groupByDirectory(file.Path)
  ELSE <<"m","i","s","c","e","l","l","a","n","e","o","u","s">>

\* FileGrouper.GroupFiles: group key -> files of the group, in input order
GroupFiles(files) ==
  [g \in {determineGroup(files[i]) : i \in DOMAIN files} |->
     SelectSeq(files, LAMBDA f : determineGroup(f) = g)]

(***************************************************************************)
(* Graph builder (partitioner.go).                                         *)
(***************************************************************************)
\* Partitioner.filterChangedFiles
filterChangedFiles(chs) == SelectSeq(chs, LAMBDA c : c.IsChanged)

\* Partitioner.getFilePaths
getFilePaths(files) == [i \in DOMAIN files |-> files[i].Path]

\* the key set of nodeSet in buildDependencyGraph
nodeSetOf(files) == Range(getFilePaths(files))

\* buildDependencyGraph keeping every edge whose source is a node, whatever
\* its target
buildDependencyGraphFromOnly(files, deps, nodeOrder) ==
  LET nodeSet == nodeSetOf(files)
      live == SelectSeq(deps, LAMBDA d : d.From \in nodeSet)
      targets(v) == LET from == SelectSeq(live, LAMBDA d : d.From = v)
                    IN [i \in DOMAIN from |-> from[i].To]
  IN [Nodes |-> nodeOrder,
      Edges |-> live,
      Adjacency |-> [v \in {live[i].From : i \in DOMAIN live} |-> targets(v)],
      InDegree |-> [v \in nodeSet |-> Len(SelectSeq(live, LAMBDA d : d.To = v))],
      OutDegree |-> [v \in nodeSet |-> Len(SelectSeq(live, LAMBDA d : d.From = v))]]

\* buildDependencyGraph counting the degrees before it filters the edges
buildDependencyGraphDegreesFirst(files, deps, nodeOrder) ==
  LET nodeSet == nodeSetOf(files)
      live == SelectSeq(deps, LAMBDA d : d.From \in nodeSet /\ d.To \in nodeSet)
      targets(v) == LET from == SelectSeq(live, LAMBDA d : d.From = v)
                    IN [i \in DOMAIN from |-> from[i].To]
  IN [Nodes |-> nodeOrder,
      Edges |-> live,
      Adjacency |-> [v \in {live[i].From : i \in DOMAIN live} |-> targets(v)],
      InDegree |-> [v \in nodeSet |-> Len(SelectSeq(deps, LAMBDA d : d.To = v))],
      OutDegree |-> [v \in nodeSet |-> Len(SelectSeq(deps, LAMBDA d : d.From = v))]]

\* Partitioner.buildDependencyGraph.  nodeOrder is the order in which
\* "for path := range nodeSet" happens to visit the keys of the map.
buildDependencyGraph(files, deps, nodeOrder) ==
  LET nodeSet == nodeSetOf(files)
      live == SelectSeq(deps, LAMBDA d : d.From \in nodeSet /\ d.To \in nodeSet)
      targets(v) == LET from == SelectSeq(live, LAMBDA d : d.From = v)
                    IN [i \in DOMAIN from |-> from[i].To]
  IN [Nodes |-> nodeOrder,
      Edges |-> live,
      Adjacency |-> [v \in {live[i].From : i \in DOMAIN live} |-> targets(v)],
      InDegree |-> [v \in nodeSet |-> Len(SelectSeq(live, LAMBDA d : d.To = v))],
      OutDegree |-> [v \in nodeSet |-> Len(SelectSeq(live, LAMBDA d : d.From = v))]]

\* graph.Adjacency[v]: a missing key of a Go map reads as the nil slice
Adj(g, v) == IF v \in DOMAIN g.Adjacency THEN g.Adjacency[v] ELSE <<>>

(***************************************************************************)
(* Tarjan (tarjan.go).  The record t is the TarjanSCC struct.              *)
(***************************************************************************)
\* NewTarjanSCC, and the reset at the head of FindSCCs
NewTarjanSCC(g) ==
  [graph |-> g, index |-> 0, stack |-> <<>>, indices |-> <<>>,
   lowlinks |-> <<>>, onStack |-> {}, sccs |-> <<>>]

\* TarjanSCC.pushStack that does not mark the node as being on the stack
pushStackUnmarked(t, node) ==
  [t EXCEPT !.stack = Append(@, node)]

\* TarjanSCC.pushStack
pushStack(t, node) ==
  [t EXCEPT !.stack = Append(@, node), !.onStack = @ \cup {node}]

RECURSIVE popLoop(_, _, _)
\* the loop of popSCC: <<t, scc>> after popping down to root
popLoop(t, root, scc) ==
  IF t.stack = <<>> THEN <<t, scc>>
  ELSE LET w == t.stack[Len(t.stack)]
           t1 == [t EXCEPT !.stack = SubSeq(@, 1, Len(@) - 1),
                           !.onStack = @ \ {w}]
       IN IF w = root THEN <<t1, Append(scc, w)>>
          ELSE popLoop(t1, root, Append(scc, w))

\* TarjanSCC.popSCC
popSCC(t, root) == popLoop(t, root, <<>>)

RECURSIVE strongConnect(_, _), visitSuccessors(_, _, _)
\* the "for _, w := range t.graph.Adjacency[v]" loop of strongConnect, from
\* position i
visitSuccessors(t, v, i) ==
  IF i > Len(Adj(t.graph, v)) THEN t
  ELSE LET w == Adj(t.graph, v)[i]
       IN IF w \notin DOMAIN t.indices
          THEN LET t1 == strongConnect(t, w)
               IN visitSuccessors(
                    [t1 EXCEPT !.lowlinks[v] = Min(@, t1.lowlinks[w])], v, i + 1)
          ELSE IF w \in t.onStack
          THEN visitSuccessors(
                 [t EXCEPT !.lowlinks[v] = Min(@, t.indices[w])], v, i + 1)
          ELSE visitSuccessors(t, v, i + 1)

\* TarjanSCC.strongConnect
strongConnect(t, v) ==
  LET t1 == pushStack([t EXCEPT !.indices = (v :> t.index) @@ @,
                                !.lowlinks = (v :> t.index) @@ @,
                                !.index = @ + 1], v)
      t2 == visitSuccessors(t1, v, 1)
  IN IF t2.lowlinks[v] = t2.indices[v]
     THEN LET popped == popSCC(t2, v)
              scc == popped[2]
          IN IF Len(scc) > 0
             THEN [popped[1] EXCEPT
                     !.sccs = Append(@, [Files |-> scc, Size |-> Len(scc)])]
             ELSE popped[1]
     ELSE t2

RECURSIVE findLoop(_, _)
\* the "for _, node := range t.graph.Nodes" loop of FindSCCs, from position i
findLoop(t, i) ==
  IF i > Len(t.graph.Nodes) THEN t
  ELSE IF t.graph.Nodes[i] \notin DOMAIN t.indices
  THEN findLoop(strongConnect(t, t.graph.Nodes[i]), i + 1)
  ELSE findLoop(t, i + 1)

\* TarjanSCC.FindSCCs
FindSCCs(g) == findLoop(NewTarjanSCC(g), 1).sccs

\* sort.Slice leaving the list as it was
insertSortedAppending(sorted, x) == Append(sorted, x)

RECURSIVE insertSorted(_, _)
\* one pass of the insertion sort: x moves left past every strictly smaller
\* group, so groups of equal size keep their order
insertSorted(sorted, x) ==
  IF sorted # <<>> /\ x.Size > sorted[Len(sorted)].Size
  THEN Append(insertSorted(SubSeq(sorted, 1, Len(sorted) - 1), x),
              sorted[Len(sorted)])
  ELSE Append(sorted, x)

\* sort.Slice(circularSCCs, Size descending).  For fewer than 12 elements
\* sort.Slice is an insertion sort.
sortBySizeDesc(s) == FoldSeq(insertSorted, <<>>, s)

\* findCircularDependencies keeping only the components of three files or more
findCircularDependenciesOverTwo(g) ==
  sortBySizeDesc(SelectSeq(FindSCCs(g), LAMBDA scc : scc.Size > 2))

\* Partitioner.findCircularDependencies
findCircularDependencies(g) ==
  sortBySizeDesc(SelectSeq(FindSCCs(g), LAMBDA scc : scc.Size > 1))

(***************************************************************************)
(* Namer (namer.go).  A map ranged over makes the result depend on the     *)
(* order of the range, so a name is computed for a given order and the     *)
(* possible names are those of all orders.                                 *)
(***************************************************************************)
typeNames ==
     (<<".","t","s","x">> :> <<"c","o","m","p","o","n","e","n","t","s">>)
  @@ (<<".","j","s","x">> :> <<"c","o","m","p","o","n","e","n","t","s">>)
  @@ (<<".","t","s">> :> <<"t","y","p","e","s","c","r","i","p","t">>)
  @@ (<<".","j","s">> :> <<"j","a","v","a","s","c","r","i","p","t">>)
  @@ (<<".","p","y">> :> <<"p","y","t","h","o","n">>)
  @@ (<<".","g","o">> :> <<"g","o","l","a","n","g">>)
  @@ (<<".","c","s","s">> :> <<"s","t","y","l","e","s">>)
  @@ (<<".","s","c","s","s">> :> <<"s","t","y","l","e","s">>)
  @@ (<<".","s","a","s","s">> :> <<"s","t","y","l","e","s">>)
  @@ (<<".","j","s","o","n">> :> <<"c","o","n","f","i","g">>)
  @@ (<<".","y","a","m","l">> :> <<"c","o","n","f","i","g">>)
  @@ (<<".","y","m","l">> :> <<"c","o","n","f","i","g">>)
  @@ (<<".","m","d">> :> <<"d","o","c","s">>)
  @@ (<<".","h","t","m","l">> :> <<"m","a","r","k","u","p">>)

functionalityPatterns ==
  <<[keywords |-> <<<<"a","u","t","h">>,
                   <<"a","u","t","h","e","n","t","i","c","a","t","i","o","n">>,
                   <<"l","o","g","i","n">>,
                   <<"s","i","g","n","i","n">>>>,
     name |-> <<"a","u","t","h","e","n","t","i","c","a","t","i","o","n">>],
    [keywords |-> <<<<"u","s","e","r">>,
                   <<"p","r","o","f","i","l","e">>,
                   <<"a","c","c","o","u","n","t">>>>,
     name |-> <<"u","s","e","r","-","m","a","n","a","g","e","m","e","n","t">>],
    [keywords |-> <<<<"a","p","i">>,
                   <<"e","n","d","p","o","i","n","t">>,
                   <<"r","o","u","t","e">>,
                   <<"h","a","n","d","l","e","r">>>>,
     name |-> <<"a","p","i">>],
    [keywords |-> <<<<"d","a","t","a","b","a","s","e">>,
                   <<"d","b">>,
                   <<"m","o","d","e","l">>,
                   <<"s","c","h","e","m","a">>>>,
     name |-> <<"d","a","t","a","b","a","s","e">>],
    [keywords |-> <<<<"c","o","m","p","o","n","e","n","t">>,
                   <<"u","i">>,
                   <<"i","n","t","e","r","f","a","c","e">>>>,
     name |-> <<"c","o","m","p","o","n","e","n","t","s">>],
    [keywords |-> <<<<"u","t","i","l">>,
                   <<"h","e","l","p","e","r">>,
                   <<"c","o","m","m","o","n">>>>,
     name |-> <<"u","t","i","l","i","t","i","e","s">>],
    [keywords |-> <<<<"t","e","s","t">>,
                   <<"s","p","e","c">>,
                   <<"_","_","t","e","s","t","_","_">>>>,
     name |-> <<"t","e","s","t","s">>],
    [keywords |-> <<<<"c","o","n","f","i","g">>,
                   <<"s","e","t","t","i","n","g">>,
                   <<"c","o","n","s","t","a","n","t">>>>,
     name |-> <<"c","o","n","f","i","g","u","r","a","t","i","o","n">>],
    [keywords |-> <<<<"s","t","y","l","e">>,
                   <<"c","s","s">>,
                   <<"t","h","e","m","e">>>>,
     name |-> <<"s","t","y","l","i","n","g">>],
    [keywords |-> <<<<"s","e","r","v","i","c","e">>,
                   <<"c","l","i","e","n","t">>,
                   <<"p","r","o","v","i","d","e","r">>>>,
     name |-> <<"s","e","r","v","i","c","e","s">>],
    [keywords |-> <<<<"h","o","o","k">>,
                   <<"c","o","n","t","e","x","t">>,
                   <<"s","t","a","t","e">>>>,
     name |-> <<"s","t","a","t","e","-","m","a","n","a","g","e","m","e","n","t">>],
    [keywords |-> <<<<"l","a","y","o","u","t">>,
                   <<"t","e","m","p","l","a","t","e">>,
                   <<"p","a","g","e">>>>,
     name |-> <<"l","a","y","o","u","t">>],
    [keywords |-> <<<<"f","o","r","m">>,
                   <<"i","n","p","u","t">>,
                   <<"v","a","l","i","d","a","t","i","o","n">>>>,
     name |-> <<"f","o","r","m","s">>],
    [keywords |-> <<<<"c","h","a","r","t">>,
                   <<"g","r","a","p","h">>,
                   <<"v","i","s","u","a","l","i","z","a","t","i","o","n">>>>,
     name |-> <<"v","i","s","u","a","l","i","z","a","t","i","o","n">>],
    [keywords |-> <<<<"a","d","m","i","n">>,
                   <<"d","a","s","h","b","o","a","r","d">>,
                   <<"p","a","n","e","l">>>>,
     name |-> <<"a","d","m","i","n">>]>>

RECURSIVE ReplaceAll(_, _, _)
\* strings.ReplaceAll(s, old, new): non-overlapping matches, left to right
ReplaceAll(s, old, new) ==
  IF Len(s) < Len(old) THEN s
  ELSE IF SubSeq(s, 1, Len(old)) = old
  THEN new \o ReplaceAll(SubSeq(s, Len(old) + 1, Len(s)), old, new)
  ELSE <<Head(s)>> \o ReplaceAll(Tail(s), old, new)

RECURSIVE Trim(_, _)
\* strings.Trim(s, c) for a one-character cutset
Trim(s, c) ==
  IF s # <<>> /\ Head(s) = c THEN Trim(Tail(s), c)
  ELSE IF s # <<>> /\ s[Len(s)] = c THEN Trim(SubSeq(s, 1, Len(s) - 1), c)
  ELSE s

RECURSIVE collapseDashes(_)
\* for strings.Contains(name, "--") { name = strings.ReplaceAll(name, "--", "-") }
collapseDashes(name) ==
  IF Contains(name, <<"-","-">>)
  THEN collapseDashes(ReplaceAll(name, <<"-","-">>, <<"-">>))
  ELSE name

\* PartitionNamer.sanitizeName
sanitizeName(name) ==
  LET n1 == ReplaceAll(name, <<"/">>, <<"-">>)
      n2 == ReplaceAll(n1, <<"\\">>, <<"-">>)
      n3 == ReplaceAll(n2, <<"_">>, <<"-">>)
      n4 == ReplaceAll(n3, <<" ">>, <<"-">>)
      n5 == Trim(collapseDashes(n4), "-")
      n6 == IF n5 = <<>> THEN <<"f","i","l","e","s">> ELSE n5
      n7 == IF Len(n6) > 30 THEN Trim(SubSeq(n6, 1, 30), "-") ELSE n6
  IN ToLower(n7)

\* the counting loop of findCommonDirectory: dirCount after the files
dirCountOf(files) ==
  LET counted == SelectSeq(files, LAMBDA f : Dir(f.Path) # <<".">>)
      full(d) == Len(SelectSeq(counted, LAMBDA f : Dir(f.Path) = d))
      top(d) == Len(SelectSeq(counted, LAMBDA f : Split(Dir(f.Path), "/")[1] = d))
      keys == {Dir(counted[i].Path) : i \in DOMAIN counted}
                \cup {Split(Dir(counted[i].Path), "/")[1] : i \in DOMAIN counted}
  IN [d \in keys |-> full(d) + top(d)]

RECURSIVE bestDirLoop(_, _, _, _, _)
\* the "for dir, count := range dirCount" loop of findCommonDirectory, the
\* keys being visited in the order keyOrder
bestDirLoop(dirCount, keyOrder, threshold, bestDir, maxCount) ==
  IF keyOrder = <<>> THEN bestDir
  ELSE LET dir == Head(keyOrder)
           count == dirCount[dir]
       IN IF count > maxCount /\ count > threshold
          THEN bestDirLoop(dirCount, Tail(keyOrder), threshold, dir, count)
          ELSE bestDirLoop(dirCount, Tail(keyOrder), threshold, bestDir, maxCount)

\* PartitionNamer.findCommonDirectory, dirCount being ranged over in keyOrder
findCommonDirectory(files, keyOrder) ==
  IF Len(files) = 0 THEN <<>>
  ELSE bestDirLoop(dirCountOf(files), keyOrder, Len(files) \div 2, <<>>, 0)

\* the extensions map of generateByFileType
extensionsOf(files) ==
  LET exts == {ToLower(Ext(files[i].Path)) : i \in DOMAIN files} \ {<<>>}
  IN [e \in exts |-> Len(SelectSeq(files, LAMBDA f : ToLower(Ext(f.Path)) = e))]

RECURSIVE fileTypeLoop(_, _, _)
\* the "for ext, count := range extensions" loop of generateByFileType
fileTypeLoop(extensions, extOrder, totalFiles) ==
  IF extOrder = <<>> THEN <<>>
  ELSE LET ext == Head(extOrder)
       IN IF extensions[ext] > totalFiles \div 2 /\ ext \in DOMAIN typeNames
          THEN typeNames[ext]
          ELSE fileTypeLoop(extensions, Tail(extOrder), totalFiles)

\* PartitionNamer.generateByFileType, extensions being ranged over in extOrder
generateByFileType(files, extOrder) ==
  fileTypeLoop(extensionsOf(files), extOrder, Len(files))

RECURSIVE Join(_, _)
\* strings.Join
Join(strs, sep) ==
  IF strs = <<>> THEN <<>>
  ELSE IF Len(strs) = 1 THEN strs[1]
  ELSE strs[1] \o sep \o Join(Tail(strs), sep)

RECURSIVE functionalityLoop(_, _, _)
\* the "for _, pattern := range functionalityPatterns" loop, from position i
functionalityLoop(lowerPathText, nFiles, i) ==
  IF i > Len(functionalityPatterns) THEN <<>>
  ELSE LET pattern == functionalityPatterns[i]
           matches == Cardinality({k \in DOMAIN pattern.keywords :
                                     Contains(lowerPathText, pattern.keywords[k])})
       IN IF matches >= 2 \/ (matches >= 1 /\ nFiles <= 5)
          THEN pattern.name
          ELSE functionalityLoop(lowerPathText, nFiles, i + 1)

\* PartitionNamer.generateByFunctionality
generateByFunctionality(files) ==
  functionalityLoop(ToLower(Join(getFilePaths(files), <<" ">>)), Len(files), 1)

\* PartitionNamer.GenerateName for given orders of the two map ranges
GenerateName(files, keyOrder, extOrder) ==
  IF Len(files) = 0 THEN <<"e","m","p","t","y">>
  ELSE IF findCommonDirectory(files, keyOrder) # <<>>
  THEN sanitizeName(findCommonDirectory(files, keyOrder))
  ELSE IF generateByFileType(files, extOrder) # <<>>
  THEN generateByFileType(files, extOrder)
  ELSE IF generateByFunctionality(files) # <<>>
  THEN generateByFunctionality(files)
  ELSE <<"p","a","r","t","i","t","i","o","n","-">> \o Itoa(Len(files)) \o <<"-","f","i","l","e","s">>

\* every name GenerateName can return for the files
GenerateNames(files) ==
  {GenerateName(files, keyOrder, extOrder) :
     keyOrder \in Perms(DOMAIN dirCountOf(files)),
     extOrder \in Perms(DOMAIN extensionsOf(files))}

(***************************************************************************)
(* Depth assigner (partitioner.go).                                        *)
(***************************************************************************)
RECURSIVE calculateDependencyDepth(_, _, _, _), depthLoop(_, _, _, _, _, _)
RECURSIVE depthLoopNotCounting(_, _, _, _, _, _)
\* the loop of calculateDependencyDepth taking the depth of a dependency
\* for the depth of the node, without adding 1
depthLoopNotCounting(node, g, visiting, cache, i, maxDepth) ==
  IF i > Len(Adj(g, node)) THEN [depth |-> maxDepth, cache |-> cache]
  ELSE LET r == calculateDependencyDepth(Adj(g, node)[i], g, visiting, cache)
       IN depthLoopNotCounting(node, g, visiting, r.cache, i + 1,
                               IF r.depth > maxDepth THEN r.depth ELSE maxDepth)

\* the "for _, dep := range graph.Adjacency[node]" loop of
\* calculateDependencyDepth, from position i: [depth |-> maxDepth, cache]
depthLoop(node, g, visiting, cache, i, maxDepth) ==
  IF i > Len(Adj(g, node)) THEN [depth |-> maxDepth, cache |-> cache]
  ELSE LET r == calculateDependencyDepth(Adj(g, node)[i], g, visiting, cache)
       IN depthLoop(node, g, visiting, r.cache, i + 1,
                    IF 1 + r.depth > maxDepth THEN 1 + r.depth ELSE maxDepth)

\* Partitioner.calculateDependencyDepth: the depth returned and p.depthCache
\* after the call.  visiting is the set of keys the map holds true; the call
\* leaves it as it found it.
calculateDependencyDepth(node, g, visiting, cache) ==
  IF node \in visiting THEN [depth |-> 0, cache |-> cache]
  ELSE IF node \in DOMAIN cache THEN [depth |-> cache[node], cache |-> cache]
  ELSE LET r == depthLoop(node, g, visiting \cup {node}, cache, 1, 0)
       IN [depth |-> r.depth, cache |-> (node :> r.depth) @@ r.cache]

\* groups[depth]: a missing key of a Go map reads as the nil slice
Bucket(grps, d) == IF d \in DOMAIN grps THEN grps[d] ELSE <<>>

RECURSIVE groupLoop(_, _, _, _)
\* the loop of groupByDependencyDepth over the nodes left
groupLoop(nodes, g, grps, cache) ==
  IF nodes = <<>> THEN [groups |-> grps, cache |-> cache]
  ELSE LET r == calculateDependencyDepth(Head(nodes), g, {}, cache)
       IN groupLoop(Tail(nodes), g,
                    (r.depth :> Append(Bucket(grps, r.depth), Head(nodes))) @@ grps,
                    r.cache)

\* Partitioner.groupByDependencyDepth: [groups, cache] with p.depthCache after
groupByDependencyDepth(nodes, g, cache) == groupLoop(nodes, g, <<>>, cache)

(***************************************************************************)
(* Partition assembly helpers (partitioner.go).                            *)
(***************************************************************************)
\* Partitioner.getFilesByPaths
getFilesByPaths(files, paths) == SelectSeq(files, LAMBDA f : f.Path \in Range(paths))

\* Partitioner.getFileByPath: <<file>>, or <<>> for nil
getFileByPath(files, path) ==
  LET found == SelectSeq(files, LAMBDA f : f.Path = path)
  IN IF found = <<>> THEN <<>> ELSE <<found[1]>>

\* getRemainingFiles without the allocated test
getRemainingFilesAll(files, alloc) == files

\* Partitioner.getRemainingFiles
getRemainingFiles(files, alloc) == SelectSeq(files, LAMBDA f : f.Path \notin alloc)

\* Partitioner.removeAllocatedNodes
removeAllocatedNodes(nodes, alloc) == SelectSeq(nodes, LAMBDA n : n \notin alloc)

\* Partitioner.calculateDependencies
calculateDependencies(filePaths, existingPartitions) == <<>>

RECURSIVE takeDepthFilesNoBreak(_, _, _, _, _)
\* the loop of createPartitionForDepth without its break at max
takeDepthFilesNoBreak(depthFiles, allFiles, alloc, max, partitionFiles) ==
  IF depthFiles = <<>> THEN partitionFiles
  ELSE IF Head(depthFiles) \in alloc
          \/ Head(depthFiles) \in nodeSetOf(partitionFiles)
  THEN takeDepthFilesNoBreak(Tail(depthFiles), allFiles, alloc, max, partitionFiles)
  ELSE takeDepthFilesNoBreak(Tail(depthFiles), allFiles, alloc, max,
                      partitionFiles \o getFileByPath(allFiles, Head(depthFiles)))

RECURSIVE takeDepthFiles(_, _, _, _, _)
\* the loop of createPartitionForDepth: partitionFiles after the loop
takeDepthFiles(depthFiles, allFiles, alloc, max, partitionFiles) ==
  IF depthFiles = <<>> THEN partitionFiles
  ELSE IF Head(depthFiles) \in alloc
          \/ Head(depthFiles) \in nodeSetOf(partitionFiles)
  THEN takeDepthFiles(Tail(depthFiles), allFiles, alloc, max, partitionFiles)
  ELSE IF Len(partitionFiles) >= max THEN partitionFiles
  ELSE takeDepthFiles(Tail(depthFiles), allFiles, alloc, max,
                      partitionFiles \o getFileByPath(allFiles, Head(depthFiles)))

\* the partition createCircularDependencyPartitions builds for scc
circularPartition(scc, files, existingPartitions, current, name) ==
  [ID |-> Len(existingPartitions) + Len(current) + 1,
   Name |-> name,
   Files |-> getFilesByPaths(files, scc.Files),
   Dependencies |-> calculateDependencies(scc.Files, existingPartitions \o current)]

\* createPartitionForDepth numbering from its own list only
createPartitionForDepthLocalId(partitionFiles, existingPartitions, currentPartitions, name) ==
  IF Len(partitionFiles) = 0 THEN <<>>
  ELSE <<[ID |-> Len(currentPartitions) + 1,
          Name |-> name,
          Files |-> partitionFiles,
          Dependencies |-> calculateDependencies(getFilePaths(partitionFiles),
                             existingPartitions \o currentPartitions)]>>

\* Partitioner.createPartitionForDepth: the partitions it returns (none or
\* one); the files of the partition are the ones it marks allocated
createPartitionForDepth(partitionFiles, existingPartitions, currentPartitions, name) ==
  IF Len(partitionFiles) = 0 THEN <<>>
  ELSE <<[ID |-> Len(existingPartitions) + Len(currentPartitions) + 1,
          Name |-> name,
          Files |-> partitionFiles,
          Dependencies |-> calculateDependencies(getFilePaths(partitionFiles),
                             existingPartitions \o currentPartitions)]>>

RECURSIVE simpleLoop(_, _, _, _, _, _)
\* the loop of createSimplePartitions from offset i (0-based, as in the code)
simpleLoop(files, startID, max, baseName, i, parts) ==
  IF ~(i < Len(files)) THEN parts
  ELSE LET end == IF i + max > Len(files) THEN Len(files) ELSE i + max
           partitionNum == (i \div max) + 1
       IN simpleLoop(files, startID, max, baseName, i + max,
            Append(parts,
              [ID |-> startID + Len(parts) + 1,
               Name |-> baseName \o <<"-">> \o Itoa(partitionNum),
               Files |-> SubSeq(files, i + 1, end),
               Dependencies |-> <<>>]))

\* createSimplePartitions returning after its first chunk
createSimplePartitionsFirstChunk(files, startID, max, baseName) ==
  SubSeq(simpleLoop(files, startID, max, baseName, 0, <<>>), 1, 1)

\* Partitioner.createSimplePartitions
createSimplePartitions(files, startID, max, baseName) ==
  simpleLoop(files, startID, max, baseName, 0, <<>>)

\* Partitioner.validateExhaustiveness: TRUE when it returns nil
validateExhaustiveness(files, parts) ==
  LET partitionFiles == UNION {nodeSetOf(parts[i].Files) : i \in DOMAIN parts}
  IN \A i \in DOMAIN files : files[i].Path \in partitionFiles

(***************************************************************************)
(* Inputs.  The paths come from a fixed pool; the changes list is a prefix *)
(* of the pool whose last file may be a context file; the dependencies     *)
(* list is any sequence of edges (repeats and self-loops included) whose   *)
(* endpoints are files of the list or the next path of the pool, which the *)
(* list does not hold.  A second family has four changed files, a third    *)
(* three changed files of one directory, a fourth five changed files in    *)
(* two cycles of different sizes, a fifth two changed files of a directory *)
(* whose name starts with a dot.                                           *)
(***************************************************************************)
Pool ==
  <<<<"s","r","c","/","a",".","t","s">>,
    <<"s","r","c","/","b",".","t","s">>,
    <<"l","i","b","/","c",".","g","o">>,
    <<"R","E","A","D","M","E",".","m","d">>,
    <<"s","r","c","/","u","t","i","l","s","/","e","_","t","e","s","t",".","t","s">>>>

FilesBound == Min(MaxFiles, Len(Pool))

NoResult == [status |-> "none", err |-> "", plan |-> <<>>]

FileList(n, lastChanged) ==
  [i \in 1..n |-> [Path |-> Pool[i], IsChanged |-> (i < n \/ lastChanged)]]

Endpoints(n) == {Pool[i] : i \in 1..Min(n + 1, FilesBound)}

EdgeLists(ends, maxLen) ==
  UNION {[1..k -> [From : ends, To : ends]] : k \in 0..maxLen}

Configs == [MaxFilesPerPartition : 1..MaxSize, MaxPartitions : 1..MaxParts]

\* four files, the first two in a cycle, and up to MaxExtra more edges
\* between the four
CycleEdges ==
  <<[From |-> Pool[1], To |-> Pool[2]], [From |-> Pool[2], To |-> Pool[1]]>>

CycleEdgeLists ==
  {CycleEdges \o extra : extra \in EdgeLists({Pool[i] : i \in 1..4}, MaxExtra)}

\* three changed files of the directory src, and up to MaxExtra edges
\* between them
SrcFiles ==
  <<[Path |-> Pool[1], IsChanged |-> TRUE],
    [Path |-> Pool[2], IsChanged |-> TRUE],
    [Path |-> <<"s","r","c","/","d",".","t","s">>, IsChanged |-> TRUE]>>

SrcEdgeLists == EdgeLists(nodeSetOf(SrcFiles), MaxExtra)

\* five files, the first two in a cycle and the last three in another
TwoCycleEdges ==
  <<[From |-> Pool[1], To |-> Pool[2]], [From |-> Pool[2], To |-> Pool[1]],
    [From |-> Pool[3], To |-> Pool[4]], [From |-> Pool[4], To |-> Pool[5]],
    [From |-> Pool[5], To |-> Pool[3]]>>

\* two changed files of the directory .github, and at most one edge
\* between them
DotDirFiles ==
  <<[Path |-> <<".","g","i","t","h","u","b","/","a",".","t","s">>, IsChanged |-> TRUE],
    [Path |-> <<".","g","i","t","h","u","b","/","b",".","t","s">>, IsChanged |-> TRUE]>>

DotDirEdgeLists == EdgeLists(nodeSetOf(DotDirFiles), 1)

\* the state in which CreatePlan is entered
Entry ==
  /\ pc = "start"
  /\ changedFiles = <<>>
  /\ graph = <<>>
  /\ sccs = <<>>
  /\ approvedSCCs = <<>>
  /\ partitions = <<>>
  /\ allocated = {}
  /\ depthCache = <<>>
  /\ workingNodes = <<>>
  /\ depthGroups = <<>>
  /\ depth = 0
  /\ depAllocated = {}
  /\ depPartitions = <<>>
  /\ groups = <<>>
  /\ remPartitions = <<>>
  /\ warned = FALSE
  /\ prompts = <<>>
  /\ result = NoResult

\* the branch prefix and the target branch of the configuration, and the
\* branch that is checked out when the tool starts
BranchPrefix == <<"p","r","-","s","p","l","i","t">>

TargetBranch == <<"m","a","i","n">>

StartBranch == <<"f","e","a","t","u","r","e">>

\* CreateBranches has not returned
NoBranches == [list |-> <<>>, err |-> "none"]

\* AnalyzeDependencies has not been called
NoManager == [pc |-> "idle"]

\* the rollback command has not been started
NoRollback == [pc |-> "idle"]

\* the state in which executeWorkflow is entered
WorkflowEntry ==
  /\ manager = NoManager
  /\ rollback = NoRollback
  /\ wf = "analyzeChanges"
  /\ preValidation = <<>>
  /\ postValidation = <<>>
  /\ wfErr = ""
  /\ local = {TargetBranch, StartBranch}
  /\ remote = {TargetBranch, StartBranch}
  /\ checkedOut = StartBranch
  /\ createdBranches = <<>>
  /\ pushedBranches = <<>>
  /\ branches = NoBranches
  /\ log = <<>>

Init ==
  /\ \/ \E n \in 0..FilesBound, lastChanged \in BOOLEAN :
          /\ (n = 0 => lastChanged)
          /\ changes = FileList(n, lastChanged)
          /\ dependencies \in EdgeLists(Endpoints(n), MaxEdges)
     \/ /\ changes = FileList(4, TRUE)
        /\ dependencies \in CycleEdgeLists
     \/ /\ changes = SrcFiles
        /\ dependencies \in SrcEdgeLists
     \/ /\ changes = FileList(5, TRUE)
        /\ dependencies = TwoCycleEdges
     \/ /\ changes = DotDirFiles
        /\ dependencies \in DotDirEdgeLists
  /\ cfg \in Configs
  /\ Entry
  /\ prevResult = NoResult
  /\ runs = 1
  /\ prevGraph = <<>>
  /\ WorkflowEntry

(***************************************************************************)
(* CreatePlan, step by step.                                               *)
(***************************************************************************)
Fail(e) ==
  /\ pc' = "error"
  /\ result' = [status |-> "error", err |-> e, plan |-> <<>>]

\* CreatePlan, lines 24-29: reset the cache, filter, fail on no changed file
FilterChanged ==
  /\ pc = "start"
  /\ changedFiles' = filterChangedFiles(changes)
  /\ depthCache' = <<>>
  /\ IF Len(filterChangedFiles(changes)) = 0
     THEN Fail("no changed files to partition")
     ELSE pc' = "build" /\ UNCHANGED result
  /\ UNCHANGED <<changes, dependencies, cfg, graph, sccs, approvedSCCs,
                 partitions, allocated, workingNodes, depthGroups, depth,
                 depAllocated, depPartitions, groups, remPartitions, warned,
                 prompts, prevResult, runs, prevGraph, wfVars>>

\* CreatePlan, line 33: buildDependencyGraph, the map being ranged over in
\* some order
BuildGraph ==
  /\ pc = "build"
  /\ \E nodeOrder \in Perms(nodeSetOf(changedFiles)) :
       graph' = buildDependencyGraph(changedFiles, dependencies, nodeOrder)
  /\ pc' = "tarjan"
  /\ UNCHANGED <<changes, dependencies, cfg, changedFiles, sccs, approvedSCCs,
                 partitions, allocated, depthCache, workingNodes, depthGroups,
                 depth, depAllocated, depPartitions, groups, remPartitions,
                 warned, result, prompts, prevResult, runs, prevGraph, wfVars>>

\* CreatePlan, line 38: findCircularDependencies
FindCircular ==
  /\ pc = "tarjan"
  /\ sccs' = findCircularDependencies(graph)
  /\ pc' = IF findCircularDependencies(graph) = <<>> THEN "phaseA" ELSE "handle"
  /\ UNCHANGED <<changes, dependencies, cfg, changedFiles, graph, approvedSCCs,
                 partitions, allocated, depthCache, workingNodes, depthGroups,
                 depth, depAllocated, depPartitions, groups, remPartitions,
                 warned, result, prompts, prevResult, runs, prevGraph, wfVars>>

\* PromptForSCCDecision taking the abort choice for an approval
PromptForSCCDecisionApproving(answer) ==
  CASE answer = "1" -> [approved |-> TRUE, err |-> FALSE]
    [] answer = "3" -> [approved |-> TRUE, err |-> FALSE]
    [] answer = "eof" -> [approved |-> FALSE, err |-> TRUE]

\* config.PromptForSCCDecision: what it returns for the line the user ends
\* on ("2" only prints and asks again); "eof" is a failed read of stdin
PromptForSCCDecision(answer) ==
  CASE answer = "1" -> [approved |-> TRUE, err |-> FALSE]
    [] answer = "3" -> [approved |-> FALSE, err |-> TRUE]
    [] answer = "eof" -> [approved |-> FALSE, err |-> TRUE]

\* one iteration of the loop of handleOversizedCircularGroups
HandleOversized ==
  /\ pc = "handle"
  /\ LET scc == sccs[Len(approvedSCCs) + 1]
         last == Len(approvedSCCs) + 1 = Len(sccs)
         accept == /\ approvedSCCs' = Append(approvedSCCs, scc)
                   /\ pc' = IF last THEN "phaseA" ELSE "handle"
                   /\ UNCHANGED result
     IN IF scc.Size > cfg.MaxFilesPerPartition
        THEN \E answer \in {"1", "3", "eof"} :
               LET r == PromptForSCCDecision(answer)
               IN /\ prompts' = Append(prompts, [files |-> scc.Files, answer |-> answer])
                  /\ IF r.err \/ ~r.approved
                     THEN /\ Fail("failed to handle oversized circular groups")
                          /\ approvedSCCs' = <<>>
                     ELSE accept
        ELSE accept /\ UNCHANGED prompts
  /\ UNCHANGED <<changes, dependencies, cfg, changedFiles, graph, sccs,
                 partitions, allocated, depthCache, workingNodes, depthGroups,
                 depth, depAllocated, depPartitions, groups, remPartitions,
                 warned, prevResult, runs, prevGraph, wfVars>>

\* one iteration of the loop of createCircularDependencyPartitions (the
\* existing partitions are none, so the list it builds is the plan so far)
CircularPartition ==
  /\ pc = "phaseA"
  /\ Len(partitions) < Len(approvedSCCs)
  /\ LET scc == approvedSCCs[Len(partitions) + 1]
     IN /\ \E name \in GenerateNames(getFilesByPaths(changedFiles, scc.Files)) :
             partitions' = Append(partitions,
                             circularPartition(scc, changedFiles, <<>>, partitions, name))
        /\ allocated' = allocated \cup Range(scc.Files)
  /\ UNCHANGED <<changes, dependencies, cfg, pc, changedFiles, graph, sccs,
                 approvedSCCs, depthCache, workingNodes, depthGroups, depth,
                 depAllocated, depPartitions, groups, remPartitions, warned,
                 result, prompts, prevResult, runs, prevGraph, wfVars>>

\* createAllPartitions, lines 172-174, and createDependencyPartitions up to
\* its loop
EnterDependencyPartitions ==
  /\ pc = "phaseA"
  /\ Len(partitions) = Len(approvedSCCs)
  /\ LET remainingFiles == getRemainingFiles(changedFiles, allocated)
         nodes == getFilePaths(remainingFiles)
         grouped == groupByDependencyDepth(nodes, graph, depthCache)
     IN IF Len(remainingFiles) > 0
        THEN /\ workingNodes' = nodes
             /\ depthGroups' = grouped.groups
             /\ depthCache' = grouped.cache
             /\ warned' = (Len(nodes) > cfg.MaxPartitions * cfg.MaxFilesPerPartition)
             /\ pc' = "phaseB"
        ELSE /\ pc' = "validate"
             /\ UNCHANGED <<workingNodes, depthGroups, depthCache, warned>>
  /\ depth' = 0
  /\ depAllocated' = {}
  /\ depPartitions' = <<>>
  /\ UNCHANGED <<changes, dependencies, cfg, changedFiles, graph, sccs,
                 approvedSCCs, partitions, allocated, groups, remPartitions,
                 result, prompts, prevResult, runs, prevGraph, wfVars>>

\* the condition of the loop of createDependencyPartitions
DepthLoopRuns == Len(workingNodes) > 0 /\ depth <= Len(workingNodes)

\* one iteration of the loop of createDependencyPartitions
DepthStep ==
  /\ pc = "phaseB"
  /\ DepthLoopRuns
  /\ LET depthFiles == Bucket(depthGroups, depth)
         remainingFiles == getRemainingFiles(changedFiles, allocated)
         partitionFiles == takeDepthFiles(depthFiles, remainingFiles, depAllocated,
                                          cfg.MaxFilesPerPartition, <<>>)
     IN IF Len(depthFiles) = 0
        THEN UNCHANGED <<depPartitions, depAllocated, workingNodes>>
        ELSE /\ \E name \in GenerateNames(partitionFiles) :
                  depPartitions' = depPartitions \o
                    createPartitionForDepth(partitionFiles, partitions, depPartitions, name)
             /\ depAllocated' = depAllocated \cup nodeSetOf(partitionFiles)
             /\ workingNodes' = removeAllocatedNodes(workingNodes,
                                  depAllocated \cup nodeSetOf(partitionFiles))
  /\ depth' = depth + 1
  /\ UNCHANGED <<changes, dependencies, cfg, pc, changedFiles, graph, sccs,
                 approvedSCCs, partitions, allocated, depthCache, depthGroups,
                 groups, remPartitions, warned, result, prompts, prevResult, runs, prevGraph, wfVars>>

\* createDependencyPartitions returns; createAllPartitions, lines 178-191,
\* and createRemainingFilePartitions up to its loop
FinishDependencyPartitions ==
  /\ pc = "phaseB"
  /\ ~DepthLoopRuns
  /\ LET alloc == allocated \cup
                    UNION {nodeSetOf(depPartitions[i].Files) : i \in DOMAIN depPartitions}
         unallocatedFiles == getRemainingFiles(changedFiles, alloc)
     IN /\ partitions' = partitions \o depPartitions
        /\ allocated' = alloc
        /\ IF Len(unallocatedFiles) > 0
           THEN groups' = GroupFiles(unallocatedFiles) /\ pc' = "phaseC"
           ELSE UNCHANGED groups /\ pc' = "validate"
  /\ remPartitions' = <<>>
  /\ UNCHANGED <<changes, dependencies, cfg, changedFiles, graph, sccs,
                 approvedSCCs, depthCache, workingNodes, depthGroups, depth,
                 depAllocated, depPartitions, warned, result, prompts, prevResult, runs, prevGraph, wfVars>>

\* one iteration of "for groupName, groupFiles := range groups": the map
\* hands out any group it has not handed out yet
RemainingGroupStep ==
  /\ pc = "phaseC"
  /\ DOMAIN groups # {}
  /\ \E groupName \in DOMAIN groups :
       /\ remPartitions' = remPartitions \o
            createSimplePartitions(groups[groupName],
                                   Len(partitions) + Len(remPartitions),
                                   cfg.MaxFilesPerPartition, groupName)
       /\ groups' = [g \in DOMAIN groups \ {groupName} |-> groups[g]]
  /\ UNCHANGED <<changes, dependencies, cfg, pc, changedFiles, graph, sccs,
                 approvedSCCs, partitions, allocated, depthCache, workingNodes,
                 depthGroups, depth, depAllocated, depPartitions, warned,
                 result, prompts, prevResult, runs, prevGraph, wfVars>>

\* createRemainingFilePartitions, lines 305-310, and createAllPartitions,
\* line 193
FinishRemaining ==
  /\ pc = "phaseC"
  /\ DOMAIN groups = {}
  /\ LET unallocatedFiles == getRemainingFiles(changedFiles, allocated)
         made == IF Len(remPartitions) = 0
                 THEN createSimplePartitions(unallocatedFiles, Len(partitions),
                                             cfg.MaxFilesPerPartition, <<"r","e","m","a","i","n","i","n","g">>)
                 ELSE remPartitions
     IN partitions' = partitions \o made
  /\ pc' = "validate"
  /\ UNCHANGED <<changes, dependencies, cfg, changedFiles, graph, sccs,
                 approvedSCCs, allocated, depthCache, workingNodes, depthGroups,
                 depth, depAllocated, depPartitions, groups, remPartitions,
                 warned, result, prompts, prevResult, runs, prevGraph, wfVars>>

\* CreatePlan, lines 53-66: validateExhaustiveness, then the plan
ValidateAndReturn ==
  /\ pc = "validate"
  /\ IF validateExhaustiveness(changedFiles, partitions)
     THEN /\ pc' = "done"
          /\ result' = [status |-> "plan", err |-> "",
                        plan |-> [Partitions |-> partitions,
                                  Metadata |->
                                    [TotalFiles |-> Len(changedFiles),
                                     TotalPartitions |-> Len(partitions),
                                     MaxFilesPerPartition |-> cfg.MaxFilesPerPartition]]]
     ELSE Fail("exhaustiveness validation failed")
  /\ UNCHANGED <<changes, dependencies, cfg, changedFiles, graph, sccs,
                 approvedSCCs, partitions, allocated, depthCache, workingNodes,
                 depthGroups, depth, depAllocated, depPartitions, groups,
                 remPartitions, warned, prompts, prevResult, runs, prevGraph, wfVars>>

\* CreatePlan is called again on the same arguments
Rerun ==
  /\ pc \in {"done", "error"}
  /\ runs < MaxRuns
  /\ runs' = runs + 1
  /\ prevResult' = result
  /\ pc' = "start"
  /\ changedFiles' = <<>>
  /\ graph' = <<>>
  /\ sccs' = <<>>
  /\ approvedSCCs' = <<>>
  /\ partitions' = <<>>
  /\ allocated' = {}
  /\ depthCache' = <<>>
  /\ workingNodes' = <<>>
  /\ depthGroups' = <<>>
  /\ depth' = 0
  /\ depAllocated' = {}
  /\ depPartitions' = <<>>
  /\ groups' = <<>>
  /\ remPartitions' = <<>>
  /\ warned' = FALSE
  /\ prompts' = <<>>
  /\ result' = NoResult
  /\ UNCHANGED <<changes, dependencies, cfg, prevGraph, wfVars>>

Next ==
  \/ FilterChanged
  \/ BuildGraph
  \/ FindCircular
  \/ HandleOversized
  \/ CircularPartition
  \/ EnterDependencyPartitions
  \/ DepthStep
  \/ FinishDependencyPartitions
  \/ RemainingGroupStep
  \/ FinishRemaining
  \/ ValidateAndReturn

Spec == Init /\ [][Next]_vars

\* the same, CreatePlan being run a second time on the same arguments
NextRerun == Next \/ Rerun

SpecRerun == Init /\ [][NextRerun]_vars

(***************************************************************************)
(* What the properties are stated in: the input as given, independently of *)
(* the data structures CreatePlan builds from it.                          *)
(***************************************************************************)
\* the paths of the files with isChanged = true
ChangedPaths == {changes[i].Path : i \in {j \in DOMAIN changes : changes[j].IsChanged}}

\* the live edges: both endpoints are changed files
LiveEdges ==
  {<<dependencies[i].From, dependencies[i].To>> : i \in DOMAIN dependencies}
    \cap (ChangedPaths \X ChangedPaths)

RECURSIVE TransitiveClosure(_)
TransitiveClosure(R) ==
  LET step == R \cup {<<x[1][1], x[2][2]>> : x \in {y \in R \X R : y[1][2] = y[2][1]}}
  IN IF step = R THEN R ELSE TransitiveClosure(step)

\* g is reachable from f along one or more live edges
Reaches(f, g) == <<f, g>> \in TransitiveClosure(LiveEdges)

\* the strongly connected components of size >= 2 of the live graph
CircularGroups ==
  {S \in SUBSET ChangedPaths :
     /\ Cardinality(S) >= 2
     /\ \A f, g \in S : f # g => Reaches(f, g) /\ Reaches(g, f)
     /\ \A f \in S, g \in ChangedPaths \ S : ~(Reaches(f, g) /\ Reaches(g, f))}

\* CreatePlan has returned a plan
Returned == result.status = "plan"

\* the partitions of the returned plan
Plan == result.plan.Partitions

\* the paths of partition p
PathsOf(p) == {p.Files[j].Path : j \in DOMAIN p.Files}

\* the ids of the partitions of the plan that hold path f
IdsHolding(f) == {Plan[i].ID : i \in {k \in DOMAIN Plan : f \in PathsOf(Plan[k])}}

\* the partition at position i is the one Phase A made for a circular group
\* that was over the limit and that the user answered "1" for
ApprovedOversize(i) ==
  /\ i <= Len(approvedSCCs)
  /\ PathsOf(Plan[i]) = Range(approvedSCCs[i].Files)
  /\ \E k \in DOMAIN prompts :
       prompts[k] = [files |-> approvedSCCs[i].Files, answer |-> "1"]

(***************************************************************************)
(* Properties.                                                             *)
(***************************************************************************)
\* C1: in a returned plan every changed file (the changed files having
\* pairwise distinct paths) is held by exactly one partition, exactly once,
\* so no path is in two partitions.
ExhaustiveNoDuplication ==
  Returned =>
    \A f \in ChangedPaths :
      Cardinality({ij \in {<<i, j>> : i \in DOMAIN Plan, j \in 1..Len(changes)} :
                     /\ ij[2] \in DOMAIN Plan[ij[1]].Files
                     /\ Plan[ij[1]].Files[ij[2]].Path = f}) = 1

\* C1 witness: a plan to which Phase A, Phase B and Phase C each gave a
\* partition, from a changes list that also holds a context file
ExhaustiveWitness ==
  /\ Returned
  /\ approvedSCCs # <<>>
  /\ depPartitions # <<>>
  /\ remPartitions # <<>>

\* C2: in a returned plan, for every live edge f -> g whose endpoints are in
\* different partitions, the partition of g has a strictly smaller id than
\* the partition of f.
TopologicalOrder ==
  Returned =>
    \A e \in LiveEdges :
      \A pf \in IdsHolding(e[1]), pg \in IdsHolding(e[2]) :
        pf # pg => pg < pf

\* C3: every strongly connected component of size >= 2 of the live graph is
\* held whole by a single partition of the returned plan.
SCCIntegrity ==
  Returned =>
    \A S \in CircularGroups : \E i \in DOMAIN Plan : S \subseteq PathsOf(Plan[i])

\* C3 witness: a plan for an input with two circular groups
SCCIntegrityWitness ==
  /\ Returned
  /\ Cardinality(CircularGroups) >= 2

\* C4: every partition of a returned plan has at most maxFilesPerPartition
\* files, unless it is the partition of a circular group whose oversize the
\* user approved at the prompt.
SizeBound ==
  Returned =>
    \A i \in DOMAIN Plan :
      Len(Plan[i].Files) > cfg.MaxFilesPerPartition => ApprovedOversize(i)

\* C4 witness: a plan with an approved oversize partition, made from an input
\* with a depth bucket larger than the limit
SizeBoundWitness ==
  /\ Returned
  /\ \E i \in DOMAIN Plan : Len(Plan[i].Files) > cfg.MaxFilesPerPartition
  /\ \E d \in DOMAIN depthGroups : Len(depthGroups[d]) > cfg.MaxFilesPerPartition

\* C5: the prerequisite list of every partition P of a returned plan is
\* exactly the set of ids of the partitions emitted before P that hold a
\* file some file of P has a live edge to.
PrerequisitesExact ==
  Returned =>
    \A i \in DOMAIN Plan :
      Range(Plan[i].Dependencies) =
        {Plan[k].ID : k \in {q \in 1..(i - 1) :
           \E e \in LiveEdges : e[1] \in PathsOf(Plan[i]) /\ e[2] \in PathsOf(Plan[q])}}

\* C6: two CreatePlan runs on the same (files, edges, config), the user
\* giving the same answers, return the same sequence of partitions (ids,
\* files, names).
Determinism ==
  (Returned /\ prevResult.status = "plan") =>
    result.plan.Partitions = prevResult.plan.Partitions

\* C7: once the user has answered abort to an oversize prompt, CreatePlan
\* has returned an error, no plan and no partition was made; and a partition
\* is made only after every oversize circular group was decided.
UserAbortBeforeEmission ==
  /\ (\E k \in DOMAIN prompts : prompts[k].answer = "3") =>
       /\ pc = "error"
       /\ result.status = "error" /\ result.plan = <<>>
       /\ partitions = <<>> /\ depPartitions = <<>> /\ remPartitions = <<>>
  /\ partitions # <<>> =>
       \A i \in DOMAIN sccs :
         sccs[i].Size > cfg.MaxFilesPerPartition =>
           \E k \in DOMAIN prompts : prompts[k] = [files |-> sccs[i].Files, answer |-> "1"]

\* C7 witness: the user approved one oversize group and aborted at the next
UserAbortWitness ==
  /\ Len(prompts) = 2
  /\ prompts[1].answer = "1"
  /\ prompts[2].answer = "3"
  /\ pc = "error"

\* C8: CreatePlan fails only when no file is changed or when an oversize
\* circular group was not approved at its prompt; the exhaustiveness failure
\* is never returned; the loops over the circular groups never run past the
\* groups there are; and the plan CreatePlan returns holds every changed
\* file, also when the changed files exceed maxPartitions x
\* maxFilesPerPartition.
FailsOnlyForNoFilesOrAbort ==
  /\ result.status = "error" =>
       \/ result.err = "no changed files to partition" /\ ChangedPaths = {}
       \/ /\ result.err = "failed to handle oversized circular groups"
          /\ ChangedPaths # {}
          /\ prompts # <<>>
          /\ prompts[Len(prompts)].answer # "1"
          /\ Len(prompts[Len(prompts)].files) > cfg.MaxFilesPerPartition
  /\ pc = "handle" => Len(approvedSCCs) < Len(sccs)
  /\ pc = "phaseA" => Len(partitions) <= Len(approvedSCCs)
  /\ pc = "done" =>
       /\ Returned
       /\ \A f \in ChangedPaths : IdsHolding(f) # {}
  /\ pc = "error" => result.status = "error"

\* C8 witness: a plan for more changed files than the capacity, with more
\* than maxPartitions partitions
OverCapacityWitness ==
  /\ Returned
  /\ Cardinality(ChangedPaths) > cfg.MaxPartitions * cfg.MaxFilesPerPartition
  /\ warned
  /\ Len(Plan) > cfg.MaxPartitions

\* the graph has been built
Graphed == pc \notin {"start", "build"} /\ graph # <<>>

\* C9: the nodes of the built graph are exactly the paths of the changed
\* files, each once; every key of the adjacency map and every listed
\* successor is a node.
GraphRestriction ==
  Graphed =>
    /\ Range(graph.Nodes) = ChangedPaths
    /\ Len(graph.Nodes) = Cardinality(ChangedPaths)
    /\ DOMAIN graph.Adjacency \subseteq ChangedPaths
    /\ \A v \in DOMAIN graph.Adjacency : Range(graph.Adjacency[v]) \subseteq ChangedPaths

\* C9 witness: a graph built from an input with an edge from a changed file
\* to a context file and an edge from an unknown path to a changed file
GraphRestrictionWitness ==
  /\ Graphed
  /\ \E i, j \in DOMAIN dependencies :
       /\ dependencies[i].From \in ChangedPaths
       /\ dependencies[i].To \in nodeSetOf(changes) \ ChangedPaths
       /\ dependencies[j].From \notin nodeSetOf(changes)
       /\ dependencies[j].To \in ChangedPaths
  /\ graph.Edges # <<>>

\* C10: the built graph has no adjacency entry from a node to itself, and a
\* file whose only edge is to itself has depth 0.
SelfLoopsDropped ==
  /\ Graphed => \A v \in DOMAIN graph.Adjacency : v \notin Range(graph.Adjacency[v])
  /\ \A v \in DOMAIN depthCache :
       (\A e \in LiveEdges : e[1] = v => e[2] = v) => depthCache[v] = 0

\* C12: in a returned plan the k-th partition has id k: the ids are 1..N in
\* emission order, without gap or repeat, across the three phases.
DenseIds ==
  Returned => \A k \in DOMAIN Plan : Plan[k].ID = k

\* C12 witness: a plan with a circular-group partition, a depth partition
\* and a partition of the residual phase
DenseIdsWitness ==
  /\ Returned
  /\ approvedSCCs # <<>>
  /\ depPartitions # <<>>
  /\ Len(remPartitions) >= 1
  /\ Len(Plan) >= 3
  /\ Plan[Len(Plan)].ID = Len(Plan)

(***************************************************************************)
(* CreatePlan called again on the same files and configuration, the        *)
(* dependencies list having one more edge, with an endpoint that is not a  *)
(* changed file.                                                           *)
(***************************************************************************)
\* a path no file of the changes list has
OutsidePath == Pool[Min(Len(changes) + 1, Len(Pool))]

\* the edges with an endpoint outside the changed files
NonLiveEdges ==
  {e \in [From : nodeSetOf(changes) \cup {OutsidePath},
          To : nodeSetOf(changes) \cup {OutsidePath}] :
     e.From \notin ChangedPaths \/ e.To \notin ChangedPaths}

InsertAt(s, k, x) == SubSeq(s, 1, k) \o <<x>> \o SubSeq(s, k + 1, Len(s))

InitInert ==
  /\ \E lastChanged \in BOOLEAN : changes = FileList(FilesBound, lastChanged)
  /\ dependencies \in EdgeLists(Endpoints(FilesBound), MaxEdges - 1)
  /\ cfg \in Configs
  /\ Entry
  /\ prevResult = NoResult
  /\ runs = 1
  /\ prevGraph = <<>>
  /\ WorkflowEntry

RerunWithNonLiveEdge ==
  /\ pc \in {"done", "error"}
  /\ runs < MaxRuns
  /\ Len(dependencies) < MaxEdges
  /\ \E e \in NonLiveEdges, k \in 0..Len(dependencies) :
       dependencies' = InsertAt(dependencies, k, e)
  /\ runs' = runs + 1
  /\ prevGraph' = graph
  /\ pc' = "start"
  /\ changedFiles' = <<>>
  /\ graph' = <<>>
  /\ sccs' = <<>>
  /\ approvedSCCs' = <<>>
  /\ partitions' = <<>>
  /\ allocated' = {}
  /\ depthCache' = <<>>
  /\ workingNodes' = <<>>
  /\ depthGroups' = <<>>
  /\ depth' = 0
  /\ depAllocated' = {}
  /\ depPartitions' = <<>>
  /\ groups' = <<>>
  /\ remPartitions' = <<>>
  /\ warned' = FALSE
  /\ prompts' = <<>>
  /\ result' = NoResult
  /\ UNCHANGED <<changes, cfg, prevResult, wfVars>>

NextInert == Next \/ RerunWithNonLiveEdge

SpecInert == InitInert /\ [][NextInert]_vars

changedOf(files) == SelectSeq(files, LAMBDA f : f.IsChanged)

RECURSIVE planFiles(_)
\* the files of the partitions, in the order the validator ranges over them
planFiles(parts) ==
  IF parts = <<>> THEN <<>> ELSE Head(parts).Files \o planFiles(Tail(parts))

\* the issues raised by "for _, partition := range plan.Partitions" when the
\* partition has no changed file
emptyPartitionIssues(parts) ==
  LET empty == SelectSeq(parts, LAMBDA p : Len(changedOf(p.Files)) = 0)
  IN [i \in DOMAIN empty |-> <<"no changed files", empty[i].ID>>]

\* Validator.validateStructural
validateStructural(plan, originalChanges) ==
  LET seen == changedOf(planFiles(plan.Partitions))
      dupAt == {i \in DOMAIN seen : \E j \in 1..(i - 1) : seen[j].Path = seen[i].Path}
      dups == SelectSeq([i \in DOMAIN seen |-> <<i, seen[i].Path>>],
                        LAMBDA x : x[1] \in dupAt)
      duplicates == [i \in DOMAIN dups |-> <<"Duplicate file", dups[i][2]>>]
      totalFiles == Len(seen)
      originalCount == Len(changedOf(originalChanges))
      mismatch == IF totalFiles # originalCount
                  THEN <<<<"File count mismatch", totalFiles, originalCount>>>>
                  ELSE <<>>
      issues == duplicates \o mismatch \o emptyPartitionIssues(plan.Partitions)
  IN [Type |-> "STRUCTURAL",
      Status |-> IF Len(issues) > 0 THEN "FAIL" ELSE "PASS",
      Details |-> issues]

\* partitionMap of validateDependencies: id -> the last partition with the id
partitionMapOf(parts) ==
  [id \in {parts[i].ID : i \in DOMAIN parts} |->
     parts[CHOOSE i \in DOMAIN parts :
             parts[i].ID = id /\ \A j \in DOMAIN parts : parts[j].ID = id => j <= i]]

RECURSIVE hasCircularDependency(_, _, _, _)
RECURSIVE circularLoop(_, _, _, _)
\* Validator.hasCircularDependency: [found, visited]; visited is the map the
\* recursive calls share
hasCircularDependency(startID, currentID, partitionMap, visited) ==
  IF currentID \in visited
  THEN [found |-> currentID = startID, visited |-> visited]
  ELSE IF currentID \notin DOMAIN partitionMap
  THEN [found |-> FALSE, visited |-> visited \cup {currentID}]
  ELSE circularLoop(startID, partitionMap[currentID].Dependencies, partitionMap,
                    visited \cup {currentID})

\* the loop of hasCircularDependency over partition.Dependencies
circularLoop(startID, deps, partitionMap, visited) ==
  IF deps = <<>> THEN [found |-> FALSE, visited |-> visited]
  ELSE LET r == hasCircularDependency(startID, Head(deps), partitionMap, visited)
       IN IF r.found THEN r
          ELSE circularLoop(startID, Tail(deps), partitionMap, r.visited)

RECURSIVE existenceIssues(_, _, _)
\* the first loop of validateDependencies, over the prerequisites deps of
\* partition p
existenceIssues(p, deps, partitionMap) ==
  IF deps = <<>> THEN <<>>
  ELSE (IF Head(deps) \notin DOMAIN partitionMap
        THEN <<<<"non-existent partition", p.ID, Head(deps)>>>>
        ELSE IF hasCircularDependency(p.ID, Head(deps), partitionMap, {}).found
        THEN <<<<"Circular dependency", p.ID, Head(deps)>>>>
        ELSE <<>>)
       \o existenceIssues(p, Tail(deps), partitionMap)

\* the second loop of validateDependencies, for partition p
orderingIssues(p) ==
  LET late == SelectSeq(p.Dependencies, LAMBDA depID : depID >= p.ID)
  IN [i \in DOMAIN late |-> <<"later partition", p.ID, late[i]>>]

RECURSIVE existenceLoop(_, _)
\* the first loop of validateDependencies over the partitions parts
existenceLoop(parts, partitionMap) ==
  IF parts = <<>> THEN <<>>
  ELSE existenceIssues(Head(parts), Head(parts).Dependencies, partitionMap)
         \o existenceLoop(Tail(parts), partitionMap)

RECURSIVE orderingLoop(_)
\* the second loop of validateDependencies over the partitions parts
orderingLoop(parts) ==
  IF parts = <<>> THEN <<>>
  ELSE orderingIssues(Head(parts)) \o orderingLoop(Tail(parts))

\* Validator.validateDependencies without its check of the ordering
validateDependenciesNoOrdering(plan) ==
  LET issues == existenceLoop(plan.Partitions, partitionMapOf(plan.Partitions))
  IN [Type |-> "DEPENDENCY",
      Status |-> IF Len(issues) > 0 THEN "FAIL" ELSE "PASS",
      Details |-> issues]

\* Validator.validateDependencies
validateDependencies(plan) ==
  LET issues == existenceLoop(plan.Partitions, partitionMapOf(plan.Partitions))
                  \o orderingLoop(plan.Partitions)
  IN [Type |-> "DEPENDENCY",
      Status |-> IF Len(issues) > 0 THEN "FAIL" ELSE "PASS",
      Details |-> issues]

\* Validator.validateSizeConstraints
validateSizeConstraints(plan) ==
  LET maxAllowed == plan.Metadata.MaxFilesPerPartition
      over == SelectSeq(plan.Partitions,
                        LAMBDA p : Len(changedOf(p.Files)) > maxAllowed)
      warnings == [i \in DOMAIN over |->
                     <<"over the limit", over[i].ID, Len(changedOf(over[i].Files))>>]
      issues == emptyPartitionIssues(plan.Partitions)
  IN [Type |-> "STRUCTURAL",
      Status |-> IF Len(issues) > 0 THEN "FAIL"
                 ELSE IF Len(warnings) > 0 THEN "WARN" ELSE "PASS",
      Details |-> issues \o warnings]

\* Validator.validateCoverage that misses no file
validateCoverageNothingMissing(plan, originalChanges) ==
  [Type |-> "STRUCTURAL", Status |-> "PASS", Details |-> <<>>]

\* Validator.validateCoverage
validateCoverage(plan, originalChanges) ==
  LET partitionFiles == nodeSetOf(changedOf(planFiles(plan.Partitions)))
      missing == SelectSeq(originalChanges,
                           LAMBDA c : c.IsChanged /\ c.Path \notin partitionFiles)
      missingFiles == getFilePaths(missing)
  IN [Type |-> "STRUCTURAL",
      Status |-> IF Len(missingFiles) > 0 THEN "FAIL" ELSE "PASS",
      Details |-> missingFiles]

\* Validator.ValidatePlan: the results, in the order it appends them
ValidatePlan(plan, originalChanges) ==
  <<validateStructural(plan, originalChanges),
    validateDependencies(plan),
    validateSizeConstraints(plan),
    validateCoverage(plan, originalChanges)>>

\* Validator.AllPassed letting every result pass
AllPassedAlways(results) == TRUE

\* Validator.AllPassed
AllPassed(results) == \A i \in DOMAIN results : results[i].Status # "FAIL"

(***************************************************************************)
(* Branch validator (validation/validator.go, ValidateBranches).  The git  *)
(* queries it runs are inputs: notFound holds the branches for which       *)
(* "git rev-parse --verify" failed, unpushed those for which the query of  *)
(* the remote-tracking branch failed, clean tells whether the two          *)
(* "git diff --quiet" queries succeeded.                                   *)
(***************************************************************************)
\* Validator.validateGitIntegrity
validateGitIntegrity(clean) ==
  LET issues == IF clean THEN <<>> ELSE <<"uncommitted changes">>
  IN [Type |-> "GIT_INTEGRITY",
      Status |-> IF Len(issues) > 0 THEN "WARN" ELSE "PASS",
      Details |-> issues]

\* Validator.validateBranchExistence
validateBranchExistence(branchNames, notFound, unpushed) ==
  LET missing == SelectSeq(branchNames, LAMBDA b : b \in notFound)
      issues == [i \in DOMAIN missing |-> <<"Branch not found", missing[i]>>]
      unpushedBranches == SelectSeq(branchNames, LAMBDA b : b \in unpushed)
  IN [Type |-> "GIT_INTEGRITY",
      Status |-> IF Len(issues) > 0 THEN "FAIL"
                 ELSE IF Len(unpushedBranches) > 0 THEN "WARN" ELSE "PASS",
      Details |-> IF Len(issues) = 0 /\ Len(unpushedBranches) > 0
                  THEN <<<<"Unpushed branches", unpushedBranches>>>>
                  ELSE issues]

\* Validator.validateDiffComparison; its error is always nil
validateDiffComparison(branchNames, originalChanges) ==
  LET originalFileCount == Len(changedOf(originalChanges))
  IN [Type |-> "DIFF_COMPARISON",
      Status |-> IF originalFileCount = 0 THEN "WARN" ELSE "PASS",
      Details |-> <<originalFileCount, Len(branchNames)>>]

\* Validator.validateFileOperations
validateFileOperations(branchNames, originalChanges) ==
  [Type |-> "GIT_INTEGRITY",
   Status |-> "PASS",
   Details |-> <<Len(changedOf(originalChanges))>>]

\* Validator.ValidateBranches: the results, in the order it appends them
ValidateBranches(branchNames, originalChanges, clean, notFound, unpushed) ==
  <<validateGitIntegrity(clean),
    validateBranchExistence(branchNames, notFound, unpushed),
    validateDiffComparison(branchNames, originalChanges),
    validateFileOperations(branchNames, originalChanges)>>

(***************************************************************************)
(* Branch creation (git/client.go CreateBranches and rollbackBranches,     *)
(* the same code as git/brancher.go).  A repository is the record          *)
(* [local, remote, checkedOut, log]; a git command that changes it adds    *)
(* the event [op, branch, ok] to the log.  Whether a command succeeds is   *)
(* an input, except where the repository decides it: a branch that is      *)
(* checked out cannot be deleted, a branch the remote does not hold        *)
(* cannot be deleted from it.                                              *)
(***************************************************************************)
Event(op, branch, ok) == [op |-> op, branch |-> branch, ok |-> ok]

\* fmt.Sprintf("%s-%d-%s", cfg.BranchPrefix, partition.ID, partition.Name)
branchNameOf(p) == BranchPrefix \o <<"-">> \o Itoa(p.ID) \o <<"-">> \o p.Name

\* branchExists: "git rev-parse --verify" succeeds
branchExists(branchName, branchSet) == branchName \in branchSet

\* determineBaseBranch: [base, err]
determineBaseBranch(partition, plan, branchSet) ==
  IF Len(partition.Dependencies) = 0
  THEN [base |-> TargetBranch, err |-> ""]
  ELSE LET lastDep == partition.Dependencies[Len(partition.Dependencies)]
           found == {i \in DOMAIN plan.Partitions : plan.Partitions[i].ID = lastDep}
       IN IF found = {}
          THEN [base |-> <<>>, err |-> "could not find partition"]
          ELSE LET p == plan.Partitions[CHOOSE i \in found : \A j \in found : i <= j]
               IN IF ~branchExists(branchNameOf(p), branchSet)
                  THEN [base |-> <<>>, err |-> "dependency branch does not exist"]
                  ELSE [base |-> branchNameOf(p), err |-> ""]

\* CheckoutBranch
CheckoutBranch(repo, branchName, ok) ==
  [repo EXCEPT !.checkedOut = IF ok THEN branchName ELSE @,
               !.log = Append(@, Event("checkout", branchName, ok))]

\* DeleteRemoteBranch: "git push origin --delete"
DeleteRemoteBranch(repo, branchName, ok) ==
  LET done == ok /\ branchName \in repo.remote
  IN [repo EXCEPT !.remote = IF done THEN @ \ {branchName} ELSE @,
                  !.log = Append(@, Event("push --delete", branchName, done))]

\* DeleteLocalBranch: "git branch -D"
DeleteLocalBranch(repo, branchName, ok) ==
  LET done == ok /\ branchName \in repo.local /\ branchName # repo.checkedOut
  IN [repo EXCEPT !.local = IF done THEN @ \ {branchName} ELSE @,
                  !.log = Append(@, Event("branch -D", branchName, done))]

RECURSIVE deleteRemoteLoop(_, _, _)
\* rollbackBranches, the loop over pushedBranches; failing holds the
\* branches whose deletion fails
deleteRemoteLoop(repo, pushed, failing) ==
  IF pushed = <<>> THEN repo
  ELSE deleteRemoteLoop(DeleteRemoteBranch(repo, Head(pushed), Head(pushed) \notin failing),
                        Tail(pushed), failing)

RECURSIVE deleteLocalLoop(_, _, _, _)
\* rollbackBranches, the loop over createdBranches
deleteLocalLoop(repo, created, originalBranch, failing) ==
  IF created = <<>> THEN repo
  ELSE IF Head(created) = originalBranch
  THEN deleteLocalLoop(repo, Tail(created), originalBranch, failing)
  ELSE deleteLocalLoop(DeleteLocalBranch(repo, Head(created), Head(created) \notin failing),
                       Tail(created), originalBranch, failing)

\* rollbackBranches that stops at the first deletion that fails
rollbackBranchesStopping(repo, created, pushed, originalBranch, checkoutOk, failRemote, failLocal) ==
  IF Len(created) = 0 /\ Len(pushed) = 0 THEN repo
  ELSE LET r1 == CheckoutBranch(repo, originalBranch, checkoutOk)
           firstBad(s, failing) ==
             IF \E i \in DOMAIN s : s[i] \in failing
             THEN CHOOSE i \in DOMAIN s : s[i] \in failing
                                          /\ \A j \in 1..(i - 1) : s[j] \notin failing
             ELSE Len(s)
           r2 == deleteRemoteLoop(r1, SubSeq(pushed, 1, firstBad(pushed, failRemote)),
                                  failRemote)
       IN IF \E i \in DOMAIN pushed : pushed[i] \in failRemote THEN r2
          ELSE deleteLocalLoop(r2, SubSeq(created, 1, firstBad(created, failLocal)),
                               originalBranch, failLocal)

\* rollbackBranches
rollbackBranches(repo, created, pushed, originalBranch, checkoutOk, failRemote, failLocal) ==
  IF Len(created) = 0 /\ Len(pushed) = 0 THEN repo
  ELSE deleteLocalLoop(
         deleteRemoteLoop(CheckoutBranch(repo, originalBranch, checkoutOk),
                          pushed, failRemote),
         created, originalBranch, failLocal)

(***************************************************************************)
(* The workflow (splitter/splitter.go, executeWorkflow).  The plan is      *)
(* whatever CreatePlan returned to the workflow: an error, or a plan of a  *)
(* bounded pool, so that the validator and the steps after it are          *)
(* exercised on every shape of plan.  The log also records the steps of    *)
(* the workflow that were completed, as events without a branch.           *)
(***************************************************************************)
MaxPlanLen == 2        \* partitions of a plan handed to the workflow
MaxPartFiles == 2      \* files of one partition of such a plan
MaxDeps == 1           \* prerequisites of one partition of such a plan

SeqsUpTo(S, n) == UNION {[1..k -> S] : k \in 0..n}

\* the files a partition of the pool may hold: two changed files, and the
\* first of them once more as an entry that is not flagged as changed
PlanEntries ==
  {[Path |-> Pool[1], IsChanged |-> TRUE],
   [Path |-> Pool[2], IsChanged |-> TRUE],
   [Path |-> Pool[1], IsChanged |-> FALSE]}

PlanPartitions ==
  [ID : 1..MaxPlanLen,
   Name : {<<"s","r","c">>},
   Files : SeqsUpTo(PlanEntries, MaxPartFiles),
   Dependencies : SeqsUpTo(1..MaxPlanLen, MaxDeps)]

PlanPool == SeqsUpTo(PlanPartitions, MaxPlanLen)

\* what CreatePlan may return for the partitions parts
planOf(parts) ==
  [status |-> "plan", err |-> "",
   plan |-> [Partitions |-> parts,
             Metadata |-> [TotalFiles |-> Len(changedOf(changes)),
                           TotalPartitions |-> Len(parts),
                           MaxFilesPerPartition |-> cfg.MaxFilesPerPartition]]]

\* a branch an earlier run of the tool has left behind
StaleBranch == BranchPrefix \o <<"-">> \o Itoa(1) \o <<"-">> \o <<"s","r","c">>

\* the dependencies of the workflow inputs: none, or one edge between two
\* neighbours of the changes list
WorkflowEdgeLists(files) ==
  {<<>>} \cup {<<[From |-> files[i].Path, To |-> files[i + 1].Path]>> :
                 i \in 1..(Len(files) - 1)}

InitWorkflow ==
  /\ \E n \in 0..Min(2, FilesBound) :
       /\ changes = FileList(n, TRUE)
       /\ dependencies \in WorkflowEdgeLists(changes)
  /\ cfg \in Configs
  /\ Entry
  /\ prevResult = NoResult
  /\ runs = 1
  /\ prevGraph = <<>>
  /\ wf = "analyzeChanges"
  /\ preValidation = <<>>
  /\ postValidation = <<>>
  /\ wfErr = ""
  /\ \E stale \in SUBSET {StaleBranch} :
       local = {TargetBranch, StartBranch} \cup stale
  /\ remote = {TargetBranch, StartBranch}
  /\ checkedOut = StartBranch
  /\ createdBranches = <<>>
  /\ pushedBranches = <<>>
  /\ branches = NoBranches
  /\ log = <<>>
  /\ manager = NoManager
  /\ rollback = NoRollback

\* the variables of CreatePlan that the workflow steps leave alone
planVars == <<changes, dependencies, cfg, pc, changedFiles, graph, sccs,
              approvedSCCs, partitions, allocated, depthCache, workingNodes,
              depthGroups, depth, depAllocated, depPartitions, groups,
              remPartitions, warned, prompts, prevResult, runs, prevGraph>>

\* executeWorkflow returns the error e
WorkflowFail(e) ==
  /\ wf' = "failed"
  /\ wfErr' = e

\* executeWorkflow, lines 75-79: analyzeChanges; ok tells whether GetChanges
\* succeeded
AnalyzeChanges ==
  /\ wf = "analyzeChanges"
  /\ \E ok \in BOOLEAN :
       IF ~ok \/ Len(changes) = 0
       THEN /\ WorkflowFail("failed to analyze changes")
            /\ UNCHANGED log
       ELSE /\ wf' = "analyzeDependencies"
            /\ wfErr' = wfErr
            /\ log' = Append(log, Event("changes", <<>>, TRUE))
  /\ UNCHANGED <<planVars, manager, rollback, result, preValidation, postValidation, local, remote,
                 checkedOut, createdBranches, pushedBranches, branches>>

\* executeWorkflow, lines 81-85: analyzeDependencies; ok tells whether the
\* plugins succeeded
AnalyzeDependencies ==
  /\ wf = "analyzeDependencies"
  /\ \E ok \in BOOLEAN :
       IF ~ok
       THEN /\ WorkflowFail("failed to analyze dependencies")
            /\ UNCHANGED log
       ELSE /\ wf' = "createPartitionPlan"
            /\ wfErr' = wfErr
            /\ log' = Append(log, Event("dependencies", <<>>, TRUE))
  /\ UNCHANGED <<planVars, manager, rollback, result, preValidation, postValidation, local, remote,
                 checkedOut, createdBranches, pushedBranches, branches>>

\* executeWorkflow, lines 87-91: createPartitionPlan
CreatePartitionPlan ==
  /\ wf = "createPartitionPlan"
  /\ \/ /\ result' = [status |-> "error", err |-> "CreatePlan failed", plan |-> <<>>]
        /\ WorkflowFail("failed to create partition plan")
        /\ UNCHANGED log
     \/ /\ \E parts \in PlanPool : result' = planOf(parts)
        /\ wf' = "getApprovalForPlan"
        /\ wfErr' = wfErr
        /\ log' = Append(log, Event("plan", <<>>, TRUE))
  /\ UNCHANGED <<planVars, manager, rollback, preValidation, postValidation, local, remote,
                 checkedOut, createdBranches, pushedBranches, branches>>

\* the answers typed at the prompt of promptForApproval
ApprovalInputs == {"", "y", "yes", "n", "no", "N", "No"}

\* promptForApproval: the answer input approves unless it declines
promptForApproval(input) == input \notin {"n", "no", "N", "No"}

\* executeWorkflow, lines 93-96: getApprovalForPlan
GetApprovalForPlan ==
  /\ wf = "getApprovalForPlan"
  /\ \E input \in ApprovalInputs :
       IF ~promptForApproval(input)
       THEN /\ WorkflowFail("user cancelled the operation")
            /\ log' = Append(log, Event("approval", <<>>, FALSE))
       ELSE /\ wf' = "preValidation"
            /\ wfErr' = wfErr
            /\ log' = Append(log, Event("approval", <<>>, TRUE))
  /\ UNCHANGED <<planVars, manager, rollback, result, preValidation, postValidation, local, remote,
                 checkedOut, createdBranches, pushedBranches, branches>>

\* validateAndExecute, lines 166-176: the validation of the plan
PreValidate ==
  /\ wf = "preValidation"
  /\ preValidation' = ValidatePlan(result.plan, changes)
  /\ IF ~AllPassed(ValidatePlan(result.plan, changes))
     THEN /\ WorkflowFail("partition plan validation failed")
          /\ log' = Append(log, Event("validation", <<>>, FALSE))
     ELSE /\ wf' = "createBranches"
          /\ wfErr' = wfErr
          /\ log' = Append(log, Event("validation", <<>>, TRUE))
  /\ UNCHANGED <<planVars, manager, rollback, result, postValidation, local, remote,
                 checkedOut, createdBranches, pushedBranches, branches>>

\* how one iteration of the loop of CreateBranches may go once the branch
\* name is free and the base branch is known
CreateOutcomes ==
  {"createFails", "applyFails", "statusFails", "commitFails", "pushFails",
   "pushFailsNothingToCommit", "pushed", "pushedNothingToCommit"}

\* the git commands of one iteration that change the repository, in order
commandsOf(outcome, branchName) ==
  LET create(ok) == <<Event("checkout -b", branchName, ok)>>
      apply(ok) == <<Event("apply", branchName, ok)>>
      commit(ok) == <<Event("commit", branchName, ok)>>
      push(ok) == <<Event("push", branchName, ok)>>
  IN CASE outcome = "createFails" -> create(FALSE)
       [] outcome = "applyFails" -> create(TRUE) \o apply(FALSE)
       [] outcome = "statusFails" -> create(TRUE) \o apply(TRUE)
       [] outcome = "commitFails" -> create(TRUE) \o apply(TRUE) \o commit(FALSE)
       [] outcome = "pushFails" ->
            create(TRUE) \o apply(TRUE) \o commit(TRUE) \o push(FALSE)
       [] outcome = "pushFailsNothingToCommit" ->
            create(TRUE) \o apply(TRUE) \o push(FALSE)
       [] outcome = "pushed" ->
            create(TRUE) \o apply(TRUE) \o commit(TRUE) \o push(TRUE)
       [] outcome = "pushedNothingToCommit" ->
            create(TRUE) \o apply(TRUE) \o push(TRUE)
       [] OTHER -> <<>>

\* the error CreateBranches returns for an outcome, "" for none
errorOf(outcome) ==
  CASE outcome = "exists" -> "branch already exists"
    [] outcome = "noBase" -> "failed to determine base branch"
    [] outcome = "createFails" -> "failed to create branch"
    [] outcome = "applyFails" -> "failed to apply changes"
    [] outcome = "statusFails" -> "failed to check for changes"
    [] outcome = "commitFails" -> "failed to commit changes"
    [] outcome \in {"pushFails", "pushFailsNothingToCommit"} -> "failed to push branch"
    [] OTHER -> ""

\* CreateBranches, lines 39-90: one iteration of the loop over the
\* partitions, with the rollback it makes when a step fails
CreateBranch ==
  /\ wf = "createBranches"
  /\ Len(pushedBranches) < Len(result.plan.Partitions)
  /\ LET partition == result.plan.Partitions[Len(pushedBranches) + 1]
         branchName == branchNameOf(partition)
         base == determineBaseBranch(partition, result.plan, local)
     IN \E chosen \in CreateOutcomes :
          LET outcome == IF branchExists(branchName, local) THEN "exists"
                         ELSE IF base.err # "" THEN "noBase"
                         ELSE chosen
              isCreated == outcome \notin {"exists", "noBase", "createFails"}
              isPushed == outcome \in {"pushed", "pushedNothingToCommit"}
              created == IF isCreated THEN Append(createdBranches, branchName)
                         ELSE createdBranches
              repo == [local |-> IF isCreated THEN local \cup {branchName} ELSE local,
                       remote |-> IF isPushed THEN remote \cup {branchName} ELSE remote,
                       checkedOut |-> IF isCreated THEN branchName ELSE checkedOut,
                       log |-> log \o commandsOf(outcome, branchName)]
          IN IF isPushed
             THEN /\ createdBranches' = created
                  /\ pushedBranches' = Append(pushedBranches, branchName)
                  /\ local' = repo.local
                  /\ remote' = repo.remote
                  /\ checkedOut' = repo.checkedOut
                  /\ log' = repo.log
                  /\ UNCHANGED <<wf, wfErr, branches>>
             ELSE \E checkoutOk \in BOOLEAN,
                     failRemote \in SUBSET Range(pushedBranches),
                     failLocal \in SUBSET Range(created) :
                    LET after == rollbackBranches(repo, created, pushedBranches,
                                                  StartBranch, checkoutOk,
                                                  failRemote, failLocal)
                    IN /\ createdBranches' = created
                       /\ pushedBranches' = pushedBranches
                       /\ local' = after.local
                       /\ remote' = after.remote
                       /\ checkedOut' = after.checkedOut
                       /\ log' = after.log
                       /\ branches' = [list |-> <<>>, err |-> errorOf(outcome)]
                       /\ WorkflowFail("failed to create branches")
  /\ UNCHANGED <<planVars, manager, rollback, result, preValidation, postValidation>>

\* CreateBranches, lines 92-100: back to the original branch, or else to
\* the target branch, and the list of branches
FinishCreateBranches ==
  /\ wf = "createBranches"
  /\ Len(pushedBranches) = Len(result.plan.Partitions)
  /\ \E okOriginal \in BOOLEAN, okTarget \in BOOLEAN :
       LET repo == [local |-> local, remote |-> remote,
                    checkedOut |-> checkedOut, log |-> log]
           r1 == CheckoutBranch(repo, StartBranch, okOriginal)
           r2 == IF okOriginal THEN r1 ELSE CheckoutBranch(r1, TargetBranch, okTarget)
       IN /\ checkedOut' = r2.checkedOut
          /\ log' = r2.log
  /\ branches' = [list |-> createdBranches, err |-> ""]
  /\ wf' = "postValidation"
  /\ UNCHANGED <<planVars, manager, rollback, result, preValidation, postValidation, wfErr, local,
                 remote, createdBranches, pushedBranches>>

\* validateAndExecute, lines 185-208: the validation of the branches and
\* the result; broken holds the branches whose "git rev-parse --verify"
\* fails although the branch is there
PostValidate ==
  /\ wf = "postValidation"
  /\ \E clean \in BOOLEAN, broken \in SUBSET Range(branches.list) :
       LET notFound == {b \in Range(branches.list) : b \notin local} \cup broken
           unpushed == {b \in Range(branches.list) : b \notin remote}
           results == ValidateBranches(branches.list, changes, clean, notFound, unpushed)
       IN /\ postValidation' = results
          /\ IF ~AllPassed(results)
             THEN WorkflowFail("branch validation failed")
             ELSE /\ wf' = "succeeded"
                  /\ wfErr' = wfErr
  /\ UNCHANGED <<planVars, manager, rollback, result, preValidation, local, remote, checkedOut,
                 createdBranches, pushedBranches, branches, log>>

NextWorkflow ==
  \/ AnalyzeChanges
  \/ AnalyzeDependencies
  \/ CreatePartitionPlan
  \/ GetApprovalForPlan
  \/ PreValidate
  \/ CreateBranch
  \/ FinishCreateBranches
  \/ PostValidate

SpecWorkflow == InitWorkflow /\ [][NextWorkflow]_vars

(***************************************************************************)
(* Properties of the validator and of the workflow.                        *)
(***************************************************************************)
\* ValidatePlan has run on the plan of the workflow
Validated == preValidation # <<>>

\* the partitions of the plan handed to the workflow
WorkflowPlan == result.plan.Partitions

\* some result of the list has the status FAIL
ReportsFail(results) == \E i \in DOMAIN results : results[i].Status = "FAIL"

\* the paths of the changed files partition p holds
ChangedPathsOf(p) == nodeSetOf(changedOf(p.Files))

\* some dependency edge f -> g has f in a partition P and g in another
\* partition Q with id(Q) >= id(P)
EdgeAgainstOrder ==
  \E e \in Range(dependencies), i \in DOMAIN WorkflowPlan, j \in DOMAIN WorkflowPlan :
    /\ i # j
    /\ e.From \in ChangedPathsOf(WorkflowPlan[i])
    /\ e.To \in ChangedPathsOf(WorkflowPlan[j])
    /\ WorkflowPlan[j].ID >= WorkflowPlan[i].ID

\* C13: ValidatePlan reports a FAIL result for every plan in which some
\* dependency edge f -> g joins files of two different partitions P (with f)
\* and Q (with g) such that id(Q) >= id(P).
ValidatorOrderingCheck ==
  (Validated /\ EdgeAgainstOrder) => ReportsFail(preValidation)

\* partition p holds exactly the files of a circular group that was over
\* the limit and that the user approved in Phase A
PreApprovedOversize(p) ==
  \E i \in DOMAIN approvedSCCs, k \in DOMAIN prompts :
    /\ ChangedPathsOf(p) = Range(approvedSCCs[i].Files)
    /\ prompts[k] = [files |-> approvedSCCs[i].Files, answer |-> "1"]

\* C14: a partition with more than maxFilesPerPartition changed files that
\* is not a pre-approved oversize circular group makes ValidatePlan report a
\* FAIL result.
ValidatorSizeCheck ==
  Validated =>
    \A i \in DOMAIN WorkflowPlan :
      (/\ Len(changedOf(WorkflowPlan[i].Files)) > result.plan.Metadata.MaxFilesPerPartition
       /\ ~PreApprovedOversize(WorkflowPlan[i]))
        => ReportsFail(preValidation)

\* some partition lists a prerequisite id that is >= its own id, or that
\* is the id of no partition of the plan
BadPrerequisite ==
  \E i \in DOMAIN WorkflowPlan :
    \E k \in DOMAIN WorkflowPlan[i].Dependencies :
      \/ WorkflowPlan[i].Dependencies[k] >= WorkflowPlan[i].ID
      \/ \A j \in DOMAIN WorkflowPlan :
           WorkflowPlan[j].ID # WorkflowPlan[i].Dependencies[k]

\* C15: the dependency result of ValidatePlan is FAIL exactly when some
\* partition lists a prerequisite id that is >= its own id or that no
\* partition of the plan has; otherwise it is PASS.
ValidatorPrerequisiteCheck ==
  Validated =>
    /\ preValidation[2].Type = "DEPENDENCY"
    /\ preValidation[2].Status = IF BadPrerequisite THEN "FAIL" ELSE "PASS"

\* a plan was validated in which a partition names an existing partition
\* with a higher id as its only prerequisite, that partition has no
\* prerequisite itself, and the dependency result is FAIL
ValidatorPrerequisiteWitness ==
  /\ Validated
  /\ preValidation[2].Status = "FAIL"
  /\ \E i \in DOMAIN WorkflowPlan, j \in DOMAIN WorkflowPlan :
       /\ WorkflowPlan[i].Dependencies = <<WorkflowPlan[j].ID>>
       /\ WorkflowPlan[j].ID > WorkflowPlan[i].ID
       /\ WorkflowPlan[j].Dependencies = <<>>

\* the number of entries flagged as changed, over all partitions of the
\* plan, that have the path
Occurrences(path) ==
  Cardinality({<<i, k>> \in (DOMAIN WorkflowPlan) \X (1..MaxPartFiles) :
                 /\ k \in DOMAIN WorkflowPlan[i].Files
                 /\ WorkflowPlan[i].Files[k].IsChanged
                 /\ WorkflowPlan[i].Files[k].Path = path})

\* C16: when no result of ValidatePlan is FAIL (WARN results do not count),
\* every changed file of changes is held by exactly one partition of the
\* plan, exactly once.
ValidatorCoverageSound ==
  (Validated /\ ~ReportsFail(preValidation)) =>
    \A c \in Range(changedOf(changes)) : Occurrences(c.Path) = 1

\* a plan for two changed files passed the validation with a warning
ValidatorCoverageWitness ==
  /\ Validated
  /\ ~ReportsFail(preValidation)
  /\ Len(changedOf(changes)) = 2
  /\ \E i \in DOMAIN preValidation : preValidation[i].Status = "WARN"

\* the git commands that create, check out, fill, push or delete a branch
GitOps == {"checkout -b", "checkout", "apply", "commit", "push", "push --delete", "branch -D"}

\* the positions of the log at which a git command was run
GitEvents == {i \in DOMAIN log : log[i].op \in GitOps}

\* the repository is as it was when the workflow started
RepositoryUntouched ==
  /\ GitEvents = {}
  /\ createdBranches = <<>>
  /\ pushedBranches = <<>>
  /\ checkedOut = StartBranch
  /\ local \subseteq {TargetBranch, StartBranch, StaleBranch}
  /\ remote = {TargetBranch, StartBranch}

\* C17: a git command on a branch is run only after a plan was created, then
\* the user approved it, then the validation of the plan returned no FAIL;
\* when the creation of the plan fails, the user declines or the validation
\* has a FAIL, the workflow ends with an error and no branch was created,
\* checked out or pushed.
WorkflowGating ==
  /\ (GitEvents # {} \/ wf \in {"createBranches", "postValidation", "succeeded"}) =>
       /\ result.status = "plan"
       /\ Validated
       /\ ~ReportsFail(preValidation)
       /\ \E ip \in DOMAIN log, ia \in DOMAIN log, iv \in DOMAIN log :
            /\ ip < ia
            /\ ia < iv
            /\ log[ip] = Event("plan", <<>>, TRUE)
            /\ log[ia] = Event("approval", <<>>, TRUE)
            /\ log[iv] = Event("validation", <<>>, TRUE)
            /\ \A g \in GitEvents : iv < g
  /\ (\/ result.status = "error"
      \/ Event("approval", <<>>, FALSE) \in Range(log)
      \/ (Validated /\ ReportsFail(preValidation))) =>
       /\ wf = "failed"
       /\ wfErr # ""
       /\ RepositoryUntouched

\* a branch was created and pushed for a plan that was approved and whose
\* validation returned a warning but no FAIL
WorkflowGatingWitness ==
  /\ \E g \in GitEvents : log[g].op = "push" /\ log[g].ok
  /\ Event("approval", <<>>, TRUE) \in Range(log)
  /\ ~ReportsFail(preValidation)
  /\ \E i \in DOMAIN preValidation : preValidation[i].Status = "WARN"

\* CreateBranches returned an error
CreateBranchesFailed == branches.err \notin {"none", ""}

\* the log holds an attempt of the command op on the branch
Attempted(op, branch) ==
  \E i \in DOMAIN log : log[i].op = op /\ log[i].branch = branch

\* after a failure of CreateBranches: no partition after the failing one
\* was processed, deletion was attempted for every pushed branch on the
\* remote and for every created branch locally, and no branch list was
\* returned
RolledBack ==
  /\ wf = "failed"
  /\ Len(createdBranches) <= Len(pushedBranches) + 1
  /\ \A i \in DOMAIN log :
       log[i].op = "checkout -b" =>
         \E k \in 1..(Len(pushedBranches) + 1) :
           log[i].branch = branchNameOf(WorkflowPlan[k])
  /\ \A b \in Range(pushedBranches) : Attempted("push --delete", b)
  /\ \A b \in Range(createdBranches) : Attempted("branch -D", b)
  /\ branches.list = <<>>

DeletedBefore(op, later, earlier) ==
  \A i \in DOMAIN log, j \in DOMAIN log :
    (/\ log[i].op = op
     /\ log[i].branch = later
     /\ log[j].op = op
     /\ log[j].branch = earlier) => i < j

\* C19: during the rollback the branches are deleted in reverse order of
\* creation: a branch created later is deleted, locally and on the remote,
\* before a branch created earlier.
RollbackReverseOrder ==
  CreateBranchesFailed =>
    \A i \in DOMAIN createdBranches, j \in DOMAIN createdBranches :
      i < j =>
        /\ DeletedBefore("branch -D", createdBranches[j], createdBranches[i])
        /\ DeletedBefore("push --delete", createdBranches[j], createdBranches[i])

\* C20: when the validation of the branches has a FAIL after CreateBranches
\* succeeded, the workflow returns its error with no branch of this run
\* left locally or on the remote.
RollbackOnValidationFailure ==
  (wf = "failed" /\ wfErr = "branch validation failed") =>
    \A b \in Range(createdBranches) : b \notin local /\ b \notin remote

\* the prerequisite links between the ids of the plan: id -> prerequisite
\* id, for the partition the validator's partitionMap holds for the id
PrerequisiteLinks ==
  LET partitionMap == partitionMapOf(WorkflowPlan)
  IN {<<id, d>> \in (DOMAIN partitionMap) \X (1..MaxPlanLen) :
        \E k \in DOMAIN partitionMap[id].Dependencies :
          partitionMap[id].Dependencies[k] = d}

\* id to is reachable from id from along prerequisite links
IdReaches(from, to) ==
  from = to \/ <<from, to>> \in TransitiveClosure(PrerequisiteLinks)

\* no two partitions of the plan have the same id
DistinctIds ==
  \A i \in DOMAIN WorkflowPlan, j \in DOMAIN WorkflowPlan :
    WorkflowPlan[i].ID = WorkflowPlan[j].ID => i = j

\* C30: in a plan with distinct ids, for a partition with id startID and a
\* prerequisite depID that some partition has, the validator reports a
\* circular dependency between the two (hasCircularDependency returns true)
\* exactly when startID is reachable from depID along prerequisite links,
\* a 2-cycle included.
PartitionCycleDetection ==
  (Validated /\ DistinctIds) =>
    \A i \in DOMAIN WorkflowPlan :
      \A k \in DOMAIN WorkflowPlan[i].Dependencies :
        LET startID == WorkflowPlan[i].ID
            depID == WorkflowPlan[i].Dependencies[k]
        IN depID \in DOMAIN partitionMapOf(WorkflowPlan) =>
             (<<"Circular dependency", startID, depID>> \in Range(preValidation[2].Details)
                <=> IdReaches(depID, startID))

\* the number of the files that have d as their full directory or as their
\* top-level directory, each file counted once
FilesUnder(files, d) ==
  Cardinality({i \in DOMAIN files :
                 /\ Dir(files[i].Path) # <<".">>
                 /\ \/ Dir(files[i].Path) = d
                    \/ Split(Dir(files[i].Path), "/")[1] = d})

\* the partitions of the returned plan that were named by GenerateName:
\* those of the circular groups and of the depth levels
NamedByNamer == 1..Min(Len(Plan), Len(approvedSCCs) + Len(depPartitions))

\* C28: whenever findCommonDirectory returns a directory d for the files of
\* a partition, in whatever order it ranges over its map, strictly more
\* than half of the files have d as their full or top-level directory.
CommonDirectoryMajority ==
  Returned =>
    \A i \in NamedByNamer :
      \A keyOrder \in Perms(DOMAIN dirCountOf(Plan[i].Files)) :
        LET d == findCommonDirectory(Plan[i].Files, keyOrder)
        IN d # <<>> => 2 * FilesUnder(Plan[i].Files, d) > Len(Plan[i].Files)

\* the edges of the built graph: v -> w for every w listed in Adjacency[v]
GraphEdges ==
  {<<v, w>> \in Range(graph.Nodes) \X Range(graph.Nodes) :
     \E i \in DOMAIN Adj(graph, v) : Adj(graph, v)[i] = w}

\* each of v and w is reachable from the other in the built graph
MutuallyReachable(v, w) ==
  \/ v = w
  \/ /\ <<v, w>> \in TransitiveClosure(GraphEdges)
     /\ <<w, v>> \in TransitiveClosure(GraphEdges)

\* findCircularDependencies has just run FindSCCs on the built graph
TarjanRan == pc \in {"phaseA", "handle"} /\ graph # <<>>

\* C25: the components FindSCCs returns for the built graph are pairwise
\* disjoint, none lists a node twice, together they hold every node, and
\* two nodes are in the same component exactly when each is reachable from
\* the other.
TarjanCorrect ==
  TarjanRan =>
    LET comps == FindSCCs(graph)
        in(v) == {k \in DOMAIN comps : v \in Range(comps[k].Files)}
    IN /\ \A k \in DOMAIN comps :
            /\ Cardinality(Range(comps[k].Files)) = Len(comps[k].Files)
            /\ comps[k].Size = Len(comps[k].Files)
            /\ Range(comps[k].Files) \subseteq Range(graph.Nodes)
       /\ \A v \in Range(graph.Nodes) : Cardinality(in(v)) = 1
       /\ \A v, w \in Range(graph.Nodes) :
            (in(v) = in(w)) <=> MutuallyReachable(v, w)
       /\ Range(sccs) = {comps[k] : k \in {j \in DOMAIN comps : comps[j].Size > 1}}

\* FindSCCs ran on a graph with a self-loop, a repeated successor and a
\* cycle of two nodes beside a node outside the cycle
TarjanCorrectWitness ==
  /\ TarjanRan
  /\ Len(graph.Nodes) >= 3
  /\ Len(sccs) = 1
  /\ \E v \in Range(graph.Nodes) : <<v, v>> \in GraphEdges
  /\ \E v \in Range(graph.Nodes) :
       \E i, j \in DOMAIN Adj(graph, v) : i # j /\ Adj(graph, v)[i] = Adj(graph, v)[j]

\* the members of the strongly connected component of v in the built graph
ComponentOf(v) == {w \in Range(graph.Nodes) : MutuallyReachable(v, w)}

RECURSIVE CondensedDepth(_)
\* the length of the longest path from the component of v in the condensed
\* graph, in which every strongly connected component is one node
CondensedDepth(v) ==
  LET out == {e \in GraphEdges : e[1] \in ComponentOf(v) /\ e[2] \notin ComponentOf(v)}
      below == {1 + CondensedDepth(e[2]) : e \in out}
  IN IF below = {} THEN 0 ELSE CHOOSE d \in below : \A x \in below : x <= d

\* C26: in a graph without self-loops, the depth calculateDependencyDepth
\* has cached for a node is the length of the longest path from the node in
\* the condensed graph, whatever the order of the queries; so two nodes of
\* one strongly connected component have the same depth.
SCCAwareDepth ==
  (graph # <<>> /\ \A v \in Range(graph.Nodes) : <<v, v>> \notin GraphEdges) =>
    \A v \in DOMAIN depthCache : depthCache[v] = CondensedDepth(v)

\* the files that belong to a circular group
InCircularGroup ==
  LET closure == TransitiveClosure(LiveEdges)
  IN {f \in ChangedPaths :
        \E g \in ChangedPaths \ {f} : <<f, g>> \in closure /\ <<g, f>> \in closure}

\* the live edges between two different files outside every circular group
ResidualEdges ==
  {e \in LiveEdges : e[1] # e[2] /\ e[1] \notin InCircularGroup /\ e[2] \notin InCircularGroup}

\* groupByDependencyDepth has filled the depth cache
DepthsCached == graph # <<>> /\ depthCache # <<>>

\* C29: for every live edge f -> g between two files outside every
\* circular group, both depths are cached, the depth of f is strictly
\* greater than the depth of g, and no depth bucket holds both.
DepthDecreasesAlongEdges ==
  DepthsCached =>
    \A e \in ResidualEdges :
      /\ e[1] \in DOMAIN depthCache
      /\ e[2] \in DOMAIN depthCache
      /\ depthCache[e[1]] > depthCache[e[2]]
      /\ \A d \in DOMAIN depthGroups :
           ~({e[1], e[2]} \subseteq Range(depthGroups[d]))

\* the depths were cached for an input with an edge between two files
\* outside the circular groups and with a circular group whose members got
\* cached depths on the way
DepthDecreasesWitness ==
  /\ DepthsCached
  /\ ResidualEdges # {}
  /\ \E f \in InCircularGroup : f \in DOMAIN depthCache

\* the circular groups over the limit, as sets of paths
OversizeGroups == {S \in CircularGroups : Cardinality(S) > cfg.MaxFilesPerPartition}

\* C27: in a returned plan the circular groups have one partition each, these
\* are the partitions with the ids 1..k, in positions 1..k, their sizes never
\* grow along the list, and the groups over the limit were shown to the user
\* once each, in that same order, largest first.
PhaseAOrder ==
  /\ \A a, b \in DOMAIN prompts :
       a < b => Len(prompts[a].files) >= Len(prompts[b].files)
  /\ Returned =>
       LET k == Cardinality(CircularGroups)
           shown == [a \in DOMAIN prompts |-> Range(prompts[a].files)]
           over == SelectSeq([i \in 1..Min(k, Len(Plan)) |-> PathsOf(Plan[i])],
                             LAMBDA S : S \in OversizeGroups)
       IN /\ k <= Len(Plan)
          /\ \A i \in 1..k : Plan[i].ID = i /\ PathsOf(Plan[i]) \in CircularGroups
          /\ \A i, j \in 1..k : PathsOf(Plan[i]) = PathsOf(Plan[j]) => i = j
          /\ \A i \in (k + 1)..Len(Plan) : PathsOf(Plan[i]) \notin CircularGroups
          /\ \A i \in 1..(k - 1) : Len(Plan[i].Files) >= Len(Plan[i + 1].Files)
          /\ Range(over) = OversizeGroups
          /\ shown = over

\* a plan came back for two circular groups of different sizes, both over
\* the limit and both shown to the user
PhaseAOrderWitness ==
  /\ Returned
  /\ Cardinality(CircularGroups) = 2
  /\ Len(prompts) = 2
  /\ Len(Plan) >= 2
  /\ Len(Plan[1].Files) > Len(Plan[2].Files)

\* the changed files outside every circular group
OutsideGroups == ChangedPaths \ InCircularGroup

\* the positions of the returned plan that Phase B filled
PhaseBPositions ==
  (Len(approvedSCCs) + 1)..Min(Len(Plan), Len(approvedSCCs) + Len(depPartitions))

\* C24: in a returned plan every changed file outside the circular groups is
\* in a partition made by Phase B, none is left to Phase C, and of two such
\* files the one of strictly lower depth is in a partition of strictly lower
\* id.
PhaseBDrainsBuckets ==
  (Returned /\ DepthsCached) =>
    /\ \A f \in OutsideGroups : \E i \in PhaseBPositions : f \in PathsOf(Plan[i])
    /\ \A f, g \in OutsideGroups \cap DOMAIN depthCache :
         depthCache[f] < depthCache[g] =>
           \A i \in IdsHolding(f), j \in IdsHolding(g) : i < j

\* the characters a partition name may start with
NameStart ==
  {"a","b","c","d","e","f","g","h","i","j","k","l","m","n","o","p","q","r",
   "s","t","u","v","w","x","y","z","0","1","2","3","4","5","6","7","8","9"}

\* name matches [a-z0-9][a-z0-9-]* and is at most 30 characters long
LegalName(name) ==
  /\ Len(name) >= 1
  /\ Len(name) <= 30
  /\ name[1] \in NameStart
  /\ \A k \in DOMAIN name : name[k] \in NameStart \cup {"-"}

\* C23: every partition of a returned plan, whichever phase made it, has a
\* name that starts with a lower-case letter or a digit, holds nothing but
\* lower-case letters, digits and "-", and is at most 30 characters long.
NameLegality == Returned => \A i \in DOMAIN Plan : LegalName(Plan[i].Name)


(***************************************************************************)
(* Plugin manager (plugin/manager.go, AnalyzeDependencies).  m.plugins is  *)
(* what discoverPlugins found on disk, so it is an input; what a plugin    *)
(* writes to its standard output is an input as well.  The record manager  *)
(* holds the argument changes, m.plugins, fileGroups with the keys not yet *)
(* ranged over, and allDependencies.                                       *)
(***************************************************************************)
MaxPluginDeps == 2     \* dependencies in the output of one plugin run

\* strings.HasPrefix
HasPrefix(s, prefix) ==
  Len(s) >= Len(prefix) /\ SubSeq(s, 1, Len(prefix)) = prefix

\* strings.HasSuffix
HasSuffix(s, suffix) ==
  Len(s) >= Len(suffix) /\ SubSeq(s, Len(s) - Len(suffix) + 1, Len(s)) = suffix

\* strings.Index: the 0-based position of the first sub in s, -1 when absent
Index(s, sub) ==
  IF Contains(s, sub)
  THEN CHOOSE i \in 0..(Len(s) - Len(sub)) :
         /\ SubSeq(s, i + 1, i + Len(sub)) = sub
         /\ \A j \in 0..(i - 1) : SubSeq(s, j + 1, j + Len(sub)) # sub
  ELSE -1

RECURSIVE SplitOn(_, _)
\* strings.Split(s, sep) for a separator of one character or more
SplitOn(s, sep) ==
  IF Index(s, sep) < 0 THEN <<s>>
  ELSE <<SubSeq(s, 1, Index(s, sep))>>
       \o SplitOn(SubSeq(s, Index(s, sep) + Len(sep) + 1, Len(s)), sep)

RECURSIVE TrimCutset(_, _)
\* strings.Trim(s, cutset)
TrimCutset(s, cutset) ==
  IF s # <<>> /\ Head(s) \in cutset THEN TrimCutset(Tail(s), cutset)
  ELSE IF s # <<>> /\ s[Len(s)] \in cutset THEN TrimCutset(SubSeq(s, 1, Len(s) - 1), cutset)
  ELSE s

\* strings.TrimSpace
TrimSpace(s) == TrimCutset(s, {" ", "\t", "\n", "\r"})

RECURSIVE cleanElems(_, _)
\* filepath.Clean on the elements of a relative path: "" and "." are
\* dropped, ".." removes the element before it when there is one
cleanElems(elems, out) ==
  IF elems = <<>> THEN out
  ELSE IF Head(elems) = <<>> \/ Head(elems) = <<".">> THEN cleanElems(Tail(elems), out)
  ELSE IF Head(elems) = <<".", ".">> /\ out # <<>> /\ out[Len(out)] # <<".", ".">>
  THEN cleanElems(Tail(elems), SubSeq(out, 1, Len(out) - 1))
  ELSE cleanElems(Tail(elems), Append(out, Head(elems)))

\* filepath.Clean of a relative path
Clean(path) ==
  LET elems == cleanElems(Split(path, "/"), <<>>)
  IN IF elems = <<>> THEN <<".">> ELSE Join(elems, <<"/">>)

\* filepath.Join(baseDir, importPath)
PathJoin(baseDir, importPath) ==
  IF baseDir = <<>> THEN Clean(importPath)
  ELSE IF importPath = <<>> THEN Clean(baseDir)
  ELSE Clean(baseDir \o <<"/">> \o importPath)

\* the extensions resolveImportPath tries, in its order
importExtensions ==
  <<<<>>, <<".","t","s">>, <<".","t","s","x">>, <<".","j","s">>, <<".","j","s","x">>, <<"/","i","n","d","e","x",".","t","s">>, <<"/","i","n","d","e","x",".","j","s">>>>

\* Manager.resolveImportPath
resolveImportPath(importPath, baseDir, availableFiles) ==
  IF ~HasPrefix(importPath, <<".">>) THEN <<>>
  ELSE LET resolved == PathJoin(baseDir, importPath)
           hits == {i \in DOMAIN importExtensions :
                      (resolved \o importExtensions[i]) \in availableFiles}
       IN IF hits = {} THEN <<>>
          ELSE resolved \o importExtensions[CHOOSE i \in hits : \A j \in hits : i <= j]

\* extractImportsFromContent, the path a line imports, "" for none
importPathOf(line) ==
  LET parts == SplitOn(line, <<" ","f","r","o","m"," ">>)
      fromPath == IF HasPrefix(line, <<"i","m","p","o","r","t"," ">>) /\ Contains(line, <<" ","f","r","o","m"," ">>) /\ Len(parts) = 2
                  THEN TrimCutset(parts[2], {"\"", "'", ";"})
                  ELSE <<>>
      start == Index(line, <<"r","e","q","u","i","r","e","(">>) + 8
      rest == SubSeq(line, start + 1, Len(line))
      end == Index(rest, <<")">>)
  IN IF Contains(line, <<"r","e","q","u","i","r","e","(">>) /\ end > 0
     THEN TrimCutset(SubSeq(rest, 1, end), {"\"", "'"})
     ELSE fromPath

RECURSIVE extractLoop(_, _, _, _, _)
\* extractImportsFromContent, the loop over the lines from lineNum on
extractLoop(lines, lineNum, filePath, availableFiles, found) ==
  IF lineNum > Len(lines) THEN found
  ELSE LET line == TrimSpace(lines[lineNum])
           importPath == importPathOf(line)
           resolvedPath == resolveImportPath(importPath, Dir(filePath), availableFiles)
       IN extractLoop(lines, lineNum + 1, filePath, availableFiles,
            IF importPath # <<>> /\ resolvedPath # <<>>
            THEN Append(found, [From |-> filePath, To |-> resolvedPath,
                                Type |-> "import", Line |-> lineNum])
            ELSE found)

\* Manager.extractImportsFromContent
extractImportsFromContent(content, filePath, availableFiles) ==
  extractLoop(Split(content, "\n"), 1, filePath, availableFiles, <<>>)

\* fallbackAnalysis, the map availableFiles as the set of its keys
availableFilesOf(files) ==
  {files[i].Path : i \in DOMAIN files}
  \cup {SubSeq(files[i].Path, 1, Len(files[i].Path) - 3) \o <<".","j","s">> :
          i \in {k \in DOMAIN files : HasSuffix(files[k].Path, <<".","t","s">>)}}

RECURSIVE fallbackLoop(_, _, _)
\* fallbackAnalysis, the loop over the files from position i on
fallbackLoop(files, i, found) ==
  IF i > Len(files) THEN found
  ELSE fallbackLoop(files, i + 1,
         IF files[i].IsChanged
         THEN found \o extractImportsFromContent(files[i].Content, files[i].Path,
                                                 availableFilesOf(files))
         ELSE found)

\* Manager.fallbackAnalysis
fallbackAnalysis(files) == fallbackLoop(files, 1, <<>>)

\* the plugins that may be installed: name -> Extensions
PluginPool ==
     ("typescript" :> {<<".","t","s">>, <<".","t","s","x">>, <<".","j","s">>, <<".","j","s","x">>})
  @@ ("go" :> {<<".","g","o">>})

\* Manager.getPluginForFile: the plugin name, "" for none
getPluginForFile(plugins, filePath) ==
  LET able == {name \in plugins : ToLower(Ext(filePath)) \in PluginPool[name]}
  IN IF able = {} THEN "" ELSE CHOOSE name \in able : TRUE

\* Manager.groupFilesByPlugin
groupFilesByPlugin(plugins, files) ==
  [name \in {getPluginForFile(plugins, files[i].Path) : i \in DOMAIN files} \ {""} |->
     SelectSeq(files, LAMBDA f : getPluginForFile(plugins, f.Path) = name)]

\* the contents a file may have
ImportLine == <<"i","m","p","o","r","t"," ","b"," ","f","r","o","m"," ","\"",".","/","b","\"",";">>

RequireLine == <<"c","o","n","s","t"," ","b"," ","="," ","r","e","q","u","i","r","e","(","\"",".","/","b","\"",")">>

ExternalLine == <<"i","m","p","o","r","t"," ","r"," ","f","r","o","m"," ","\"","r","e","a","c","t","\"",";">>

Contents ==
  {<<>>, ImportLine, ImportLine \o <<"\n">> \o RequireLine,
   ExternalLine \o <<"\n">> \o ImportLine}

\* the lists AnalyzeDependencies may be called on
ManagerChanges ==
  UNION {{[i \in 1..n |-> [Path |-> Pool[i], Content |-> content[i],
                           IsChanged |-> (i < n \/ lastChanged)]] :
            content \in [1..n -> Contents], lastChanged \in BOOLEAN} : n \in 1..2}
  \cup {[i \in 1..3 |-> [Path |-> Pool[i], IsChanged |-> TRUE,
                         Content |-> IF i = 1 THEN content ELSE <<>>]] :
          content \in Contents}

\* what a plugin may report for the files it was given: the field
\* Dependencies of its output, any list of edges between two of the files
PluginEdges(files) ==
  {[From |-> files[i].Path, To |-> files[j].Path, Type |-> type, Line |-> line] :
     i \in DOMAIN files, j \in DOMAIN files, type \in {"import", "call"}, line \in 1..2}

PluginOutputs(files) ==
  UNION {[1..k -> {e \in PluginEdges(files) : e.From # e.To}] : k \in 0..MaxPluginDeps}

\* AnalyzeDependencies is entered
InitManager ==
  /\ changes = <<>>
  /\ dependencies = <<>>
  /\ cfg \in Configs
  /\ Entry
  /\ prevResult = NoResult
  /\ runs = 1
  /\ prevGraph = <<>>
  /\ wf = "analyzeDependencies"
  /\ preValidation = <<>>
  /\ postValidation = <<>>
  /\ wfErr = ""
  /\ local = {TargetBranch, StartBranch}
  /\ remote = {TargetBranch, StartBranch}
  /\ checkedOut = StartBranch
  /\ createdBranches = <<>>
  /\ pushedBranches = <<>>
  /\ branches = NoBranches
  /\ log = <<>>
  /\ rollback = NoRollback
  /\ \E chs \in ManagerChanges, plugins \in SUBSET DOMAIN PluginPool :
       manager = [pc |-> "group", changes |-> chs, plugins |-> plugins,
                  fileGroups |-> <<>>, pending |-> {}, allDependencies |-> <<>>]

\* what the steps of AnalyzeDependencies leave alone
managerFrame == <<planVars, result, wf, preValidation, postValidation, wfErr, local, remote, checkedOut, createdBranches, pushedBranches, branches, log, rollback>>

\* AnalyzeDependencies, line 206: fileGroups := m.groupFilesByPlugin(changes)
GroupFilesByPlugin ==
  /\ manager.pc = "group"
  /\ LET fileGroups == groupFilesByPlugin(manager.plugins, manager.changes)
     IN manager' = [manager EXCEPT !.pc = "range", !.fileGroups = fileGroups,
                                   !.pending = DOMAIN fileGroups]
  /\ UNCHANGED managerFrame

\* AnalyzeDependencies, one turn of the loop in which executePlugin
\* succeeds (lines 225, 237-238)
ExecutePlugin ==
  /\ manager.pc = "range"
  /\ \E pluginName \in manager.pending :
       \E output \in PluginOutputs(manager.fileGroups[pluginName]) :
         manager' = [manager EXCEPT !.pending = @ \ {pluginName},
                                    !.allDependencies = @ \o output]
  /\ UNCHANGED managerFrame

\* AnalyzeDependencies, one turn of the loop in which executePlugin
\* fails (lines 225-234)
FallbackAnalysis ==
  /\ manager.pc = "range"
  /\ \E pluginName \in manager.pending :
       manager' = [manager EXCEPT
                     !.pending = @ \ {pluginName},
                     !.allDependencies = @ \o fallbackAnalysis(manager.fileGroups[pluginName])]
  /\ UNCHANGED managerFrame

\* AnalyzeDependencies, line 240: return allDependencies, nil
ReturnDependencies ==
  /\ manager.pc = "range"
  /\ manager.pending = {}
  /\ manager' = [manager EXCEPT !.pc = "returned"]
  /\ UNCHANGED managerFrame

NextManager ==
  \/ GroupFilesByPlugin
  \/ ExecutePlugin
  \/ FallbackAnalysis
  \/ ReturnDependencies

SpecManager == InitManager /\ [][NextManager]_vars

\* C22: the list AnalyzeDependencies returns holds no two edges with the
\* same from, to and type, whether they come from a plugin or from the
\* fallback analysis.
DriverDeduplicates ==
  manager.pc = "returned" =>
    \A i, j \in DOMAIN manager.allDependencies :
      (/\ manager.allDependencies[i].From = manager.allDependencies[j].From
       /\ manager.allDependencies[i].To = manager.allDependencies[j].To
       /\ manager.allDependencies[i].Type = manager.allDependencies[j].Type) => i = j


(***************************************************************************)
(* The rollback command (cli/rollback.go, runRollback).  The record        *)
(* rollback holds the argument branchPrefix, the locals originalBranch,    *)
(* localBranches, remoteBranches and safetyBranch, the position in the     *)
(* function with the index of the deletion loops, whether the prompt was   *)
(* answered yes, and the repository as it was when the command started.    *)
(* The command works on the repository local, remote, checkedOut and adds  *)
(* its git commands to the log.                                            *)
(***************************************************************************)
\* the branch names of the repositories the command is run in, in the
\* order in which "git branch" lists them
BranchPool ==
  <<StartBranch, TargetBranch, <<"m","a","s","t","e","r">>, <<"p","r","-","s","p","l","i","t","-","1","-","s","r","c">>, <<"p","r","-","s","p","l","i","t","-","2","-","l","i","b">>>>

\* the prefixes the command is given
PrefixPool == {BranchPrefix, StartBranch, <<"m","a">>, <<"z","z">>}

\* what the user types at the confirmation prompt
AnswerPool == {<<"y","\n">>, <<"Y","E","S","\n">>, <<" ","n","\n">>, <<"\n">>, <<"m","a","y","b","e","\n">>}

\* strings.TrimPrefix
TrimPrefix(s, prefix) ==
  IF HasPrefix(s, prefix) THEN SubSeq(s, Len(prefix) + 1, Len(s)) ELSE s

\* Client.GetLocalBranches: the output of "git branch", one name a line
GetLocalBranches(branchSet) == SelectSeq(BranchPool, LAMBDA b : b \in branchSet)

\* Client.GetRemoteBranches: the output of "git branch -r", the lines
\* holding HEAD left out
GetRemoteBranches(branchSet) ==
  SelectSeq([i \in DOMAIN BranchPool |-> <<"o","r","i","g","i","n","/">> \o BranchPool[i]],
            LAMBDA line : TrimPrefix(line, <<"o","r","i","g","i","n","/">>) \in branchSet
                          /\ ~Contains(line, <<"H","E","A","D">>))

\* findLocalBranchesWithPrefix that keeps every branch
findLocalBranchesUnfiltered(branchList, prefix) == branchList

\* findLocalBranchesWithPrefix, the loop over the branches listed
findLocalBranchesWithPrefix(branchList, prefix) ==
  SelectSeq(branchList, LAMBDA b : HasPrefix(b, prefix))

\* findRemoteBranchesWithPrefix, the loop over the branches listed
findRemoteBranchesWithPrefix(branchList, prefix) ==
  SelectSeq([i \in DOMAIN branchList |-> TrimPrefix(branchList[i], <<"o","r","i","g","i","n","/">>)],
            LAMBDA cleanBranch : HasPrefix(cleanBranch, prefix))

\* containsString
containsString(slice, str) == \E i \in DOMAIN slice : slice[i] = str

\* promptForConfirmation on one line of input: "yes", "no", or "again"
\* when the question is asked again
promptForConfirmation(input) ==
  LET answer == TrimSpace(ToLower(input))
  IN IF answer \in {<<"y">>, <<"y","e","s">>} THEN "yes"
     ELSE IF answer \in {<<"n">>, <<"n","o">>, <<>>} THEN "no"
     ELSE "again"

\* the repository the command works on
Repository == [local |-> local, remote |-> remote, checkedOut |-> checkedOut, log |-> log]

\* the rollback command is started
InitRollback ==
  /\ changes = <<>>
  /\ dependencies = <<>>
  /\ cfg = [MaxFilesPerPartition |-> 1, MaxPartitions |-> 1]
  /\ Entry
  /\ prevResult = NoResult
  /\ runs = 1
  /\ prevGraph = <<>>
  /\ wf = "analyzeChanges"
  /\ preValidation = <<>>
  /\ postValidation = <<>>
  /\ wfErr = ""
  /\ createdBranches = <<>>
  /\ pushedBranches = <<>>
  /\ branches = NoBranches
  /\ manager = NoManager
  /\ log = <<>>
  /\ local \in SUBSET Range(BranchPool)
  /\ remote \in SUBSET Range(BranchPool)
  /\ checkedOut \in local
  /\ \E branchPrefix \in PrefixPool :
       rollback = [pc |-> "find", branchPrefix |-> branchPrefix, originalBranch |-> <<>>,
                   localBranches |-> <<>>, remoteBranches |-> <<>>,
                   safetyBranch |-> <<>>, next |-> 1, confirmed |-> FALSE, err |-> "",
                   entry |-> [local |-> local, remote |-> remote, checkedOut |-> checkedOut]]

\* what the steps of runRollback that run no git command leave alone
rollbackFrame == <<planVars, result, wf, preValidation, postValidation, wfErr, createdBranches, pushedBranches, branches, manager>>

\* runRollback, lines 39-67: the repository is validated and the matching
\* branches are looked up; valid tells whether every git query succeeded
FindBranches ==
  /\ rollback.pc = "find"
  /\ \E valid \in BOOLEAN :
       LET localBranches == findLocalBranchesWithPrefix(GetLocalBranches(local),
                                                        rollback.branchPrefix)
           remoteBranches == findRemoteBranchesWithPrefix(GetRemoteBranches(remote),
                                                          rollback.branchPrefix)
       IN IF ~valid
          THEN rollback' = [rollback EXCEPT !.pc = "done", !.err = "git query failed"]
          ELSE rollback' = [rollback EXCEPT
                 !.originalBranch = checkedOut,
                 !.localBranches = localBranches,
                 !.remoteBranches = remoteBranches,
                 !.pc = IF Len(localBranches) = 0 /\ Len(remoteBranches) = 0
                        THEN "done" ELSE "prompt"]
  /\ UNCHANGED <<rollbackFrame, local, remote, checkedOut, log>>

\* runRollback, lines 88-92: the confirmation prompt, one line of input;
\* readErr tells that reading the line failed, and the question is asked
\* again
PromptForConfirmation ==
  /\ rollback.pc = "prompt"
  /\ \E input \in AnswerPool, readErr \in BOOLEAN :
       LET answer == IF readErr THEN "again" ELSE promptForConfirmation(input)
       IN rollback' = [rollback EXCEPT
            !.confirmed = (answer = "yes"),
            !.pc = IF answer = "yes" THEN "checkout"
                   ELSE IF answer = "no" THEN "done" ELSE "prompt"]
  /\ UNCHANGED <<rollbackFrame, local, remote, checkedOut, log>>

\* "git checkout" of a branch: it can succeed when the branch exists, and
\* when only the remote holds it, in which case git creates the local
\* branch
CheckoutExisting(repo, branchName, ok) ==
  LET done == ok /\ branchName \in repo.local \cup repo.remote
  IN [CheckoutBranch(repo, branchName, done) EXCEPT
        !.local = IF done THEN @ \cup {branchName} ELSE @]

\* runRollback, lines 98-110: the checkout of main, then of master, when
\* the branch checked out is one of those to delete
SafetyCheckout ==
  /\ rollback.pc = "checkout"
  /\ IF ~containsString(rollback.localBranches, rollback.originalBranch)
     THEN /\ rollback' = [rollback EXCEPT !.safetyBranch = rollback.originalBranch,
                                          !.pc = "deleteRemote", !.next = 1]
          /\ UNCHANGED <<local, checkedOut, log>>
     ELSE \E okMain, okMaster \in BOOLEAN :
            LET r1 == CheckoutExisting(Repository, TargetBranch, okMain)
                r2 == IF r1.checkedOut = TargetBranch /\ r1.log[Len(r1.log)].ok THEN r1
                      ELSE CheckoutExisting(r1, <<"m","a","s","t","e","r">>, okMaster)
                done == r2.log[Len(r2.log)].ok
            IN /\ checkedOut' = r2.checkedOut
               /\ local' = r2.local
               /\ log' = r2.log
               /\ rollback' = [rollback EXCEPT
                    !.safetyBranch = IF r1.log[Len(r1.log)].ok THEN TargetBranch ELSE <<"m","a","s","t","e","r">>,
                    !.pc = IF done THEN "deleteRemote" ELSE "done",
                    !.err = IF done THEN "" ELSE "failed to checkout to safe branch",
                    !.next = 1]
  /\ UNCHANGED <<rollbackFrame, remote>>

\* runRollback, lines 113-120: one turn of the loop over remoteBranches
DeleteRemote ==
  /\ rollback.pc = "deleteRemote"
  /\ rollback.next <= Len(rollback.remoteBranches)
  /\ \E ok \in BOOLEAN :
       LET r == DeleteRemoteBranch(Repository, rollback.remoteBranches[rollback.next], ok)
       IN /\ remote' = r.remote
          /\ log' = r.log
  /\ rollback' = [rollback EXCEPT !.next = @ + 1]
  /\ UNCHANGED <<rollbackFrame, local, checkedOut>>

\* runRollback, lines 123-135: one turn of the loop over localBranches, or
\* the passage to it when the loop over remoteBranches is over
DeleteLocal ==
  \/ /\ rollback.pc = "deleteRemote"
     /\ rollback.next > Len(rollback.remoteBranches)
     /\ rollback' = [rollback EXCEPT !.pc = "deleteLocal", !.next = 1]
     /\ UNCHANGED <<rollbackFrame, local, remote, checkedOut, log>>
  \/ /\ rollback.pc = "deleteLocal"
     /\ rollback.next <= Len(rollback.localBranches)
     /\ LET branch == rollback.localBranches[rollback.next]
        IN IF branch = rollback.safetyBranch
           THEN UNCHANGED <<local, log>>
           ELSE \E ok \in BOOLEAN :
                  LET r == DeleteLocalBranch(Repository, branch, ok)
                  IN /\ local' = r.local
                     /\ log' = r.log
     /\ rollback' = [rollback EXCEPT !.next = @ + 1]
     /\ UNCHANGED <<rollbackFrame, remote, checkedOut>>

\* runRollback, lines 137-140: the command returns
FinishRollback ==
  /\ rollback.pc = "deleteLocal"
  /\ rollback.next > Len(rollback.localBranches)
  /\ rollback' = [rollback EXCEPT !.pc = "done"]
  /\ UNCHANGED <<rollbackFrame, local, remote, checkedOut, log>>

NextRollback ==
  \/ FindBranches
  \/ PromptForConfirmation
  \/ SafetyCheckout
  \/ DeleteRemote
  \/ DeleteLocal
  \/ FinishRollback

SpecRollback == InitRollback /\ [][NextRollback]_vars

\* the rollback command has been started
RollbackStarted == rollback.pc # "idle"

\* C21: the rollback command deletes, locally and on the remote, only
\* branches whose name starts with the prefix it was given, and as long as
\* the user has not answered yes at the prompt it runs no git command that
\* changes the repository: no deletion and no checkout.
ManualRollbackSafety ==
  RollbackStarted =>
    /\ \A i \in DOMAIN log :
         log[i].op \in {"push --delete", "branch -D"} =>
           HasPrefix(log[i].branch, rollback.branchPrefix)
    /\ \A b \in (rollback.entry.local \ local) \cup (rollback.entry.remote \ remote) :
         HasPrefix(b, rollback.branchPrefix)
    /\ ~rollback.confirmed =>
         /\ log = <<>>
         /\ local = rollback.entry.local
         /\ remote = rollback.entry.remote
         /\ checkedOut = rollback.entry.checkedOut

\* the user answered yes; the command checked out main because the branch
\* checked out was to be deleted, deleted a branch of the remote and a local
\* branch, and left a branch that does not start with the prefix
ManualRollbackWitness ==
  /\ RollbackStarted
  /\ rollback.pc = "done"
  /\ rollback.confirmed
  /\ rollback.entry.checkedOut # checkedOut
  /\ rollback.entry.remote \ remote # {}
  /\ rollback.entry.local \ local # {}
  /\ \E b \in local \cap remote : ~HasPrefix(b, rollback.branchPrefix)

====
